---- MODULE Spec2Model ----
(***************************************************************************)
(* Model of the risk analyzer of ivanreif/risk-analyzer-ai-agent:          *)
(*   risk-calculator.ts  calculateRiskMetrics, calculateContractRisk,      *)
(*                       calculateSecurityRisk, calculateCodeQuality,      *)
(*                       getSecurityIssues                                 *)
(*   code-analyzer.ts    isTokenContract, analyzeSolidityCode              *)
(*   ethereum-client     checkIsEthereumContract, checkIsContract,         *)
(*                       getContractData                                   *)
(*   route               GET of the risk analyzer, and the gathering of    *)
(*                       the six collectors of its multi-factor variant    *)
(*                       with the requests each of them issues             *)
(*   middleware.ts       middleware, over toolConfigs of config/tools.ts   *)
(*   test script         createMockContractData                            *)
(*                                                                         *)
(* Numbers.  The scores are JavaScript doubles built from decimal literals *)
(* (0.2, 0.125, 0.025, ...).  They are modelled as decimal fixed point in  *)
(* units of 1/10000, so 0.2 is 2000 and 1.0 is 10000; every sum and the    *)
(* halving of overallRisk is exact in these units.  The binary rounding of *)
(* a double (a relative error below 2^-52) is not modelled.                *)
(*                                                                         *)
(* Objects.  A JavaScript object with optional string fields is a function *)
(* from its field names to strings, the string Absent standing for a field *)
(* that is missing (reads as undefined).  An oracle argument is a record   *)
(* [defined, obj]: defined = FALSE is the value undefined itself, on which *)
(* every property read raises a TypeError.                                 *)
(***************************************************************************)
EXTENDS Integers, Sequences, FiniteSets, TLC

VARIABLES caller, address, response, contractData, goPlusData, isToken, result, pc,
          calls, http, promises, requests, request

vars == <<caller, address, response, contractData, goPlusData, isToken, result, pc,
          calls, http, promises, requests, request>>

\* Longest vulnerability list drawn for an input record.
MaxLen == 3

\* Longest source text drawn line by line.
MaxLines == 3

\* 1.0, the cap of Math.min(..., 1.0), in units of 1/10000.
One == 10000

Absent == "undefined"

Min(a, b) == IF a < b THEN a ELSE b

Max(a, b) == IF a > b THEN a ELSE b

(***************************************************************************)
(* types.ts: GoPlusTokenData, every field optional.                        *)
(***************************************************************************)
GoPlusFields ==
    { "is_honeypot", "is_blacklisted", "is_proxy", "is_mintable", "is_open_source",
      "is_whitelisted", "is_anti_whale", "is_trading_enabled", "buy_tax", "sell_tax",
      "cannot_sell_all", "is_scam", "is_high_risk" }

\* {} : the object with no field set.
EmptyObject == [f \in GoPlusFields |-> Absent]

\* The tax strings an oracle reply is drawn from.
TaxStrings == { "", "20", "20.5", "21", "abc" }

\* parseFloat on the strings of TaxStrings and "0": a number in tenths, or NaN.
ParseFloat(s) ==
    CASE s = "0"    -> [nan |-> FALSE, tenths |-> 0]
      [] s = "20"   -> [nan |-> FALSE, tenths |-> 200]
      [] s = "20.5" -> [nan |-> FALSE, tenths |-> 205]
      [] s = "21"   -> [nan |-> FALSE, tenths |-> 210]
      [] OTHER      -> [nan |-> TRUE, tenths |-> 0]

\* x || "0" : undefined and "" are falsy.
OrZero(x) == IF x = Absent \/ x = "" THEN "0" ELSE x

\* The tax test with >= in the place of > .
TaxAtLeast20(x) == LET p == ParseFloat(OrZero(x)) IN ~p.nan /\ p.tenths >= 200

\* parseFloat(x || "0") > 20 ; a comparison with NaN is false.
TaxAbove20(x) == LET p == ParseFloat(OrZero(x)) IN ~p.nan /\ p.tenths > 200

(***************************************************************************)
(* The entries the vulnerability lists are drawn from, and String.includes *)
(* on them (case sensitive).                                               *)
(***************************************************************************)
CriticalEntries ==
    { "Unchecked low-level call - return value not verified",
      "Etherscan API access limited - source not fetched",
      "Source analysis failed" }

MajorEntries == { "Upgradeable contract - admin can change logic", "Pattern analysis failed" }

MinorEntries == { "Using outdated Solidity version" }

IncludesApiAccessLimited(v) == v = "Etherscan API access limited - source not fetched"

IncludesAnalysisFailed(v) == v \in { "Source analysis failed", "Pattern analysis failed" }

\* compilerVersion?.includes('0.8') on the versions drawn.
CompilerVersions ==
    { Absent, "v0.8.19+commit.7dd6d404", "v0.7.6+commit.7338295f",
      "v0.7.1-nightly.2020.8.13" }

\* The substring "0.8" occurs in the release 0.8.19, and in the date of the nightly
\* build of 0.7.1 ("2020.8").
Includes08(v) == v \in { "v0.8.19+commit.7dd6d404", "v0.7.1-nightly.2020.8.13", "0.8.19" }

\* The number of i in 1..Len(s) with s[i] true.
RECURSIVE CountTrue(_)
CountTrue(s) == IF s = <<>> THEN 0 ELSE (IF Head(s) THEN 1 ELSE 0) + CountTrue(Tail(s))

\* list.some(v => v.includes('API access limited') || v.includes('analysis failed'))
HasFailureMarker(list) ==
    \E i \in 1..Len(list) : IncludesApiAccessLimited(list[i]) \/ IncludesAnalysisFailed(list[i])

(***************************************************************************)
(* risk-calculator.ts                                                      *)
(***************************************************************************)
\* calculateContractRisk without the caps of the three list terms.
calculateContractRiskNoListCaps(data) ==
    IF ~data.verified
    THEN IF HasFailureMarker(data.criticalVulnerabilities)
         THEN Min(2000 + 3000, 7000)
         ELSE Min(2000 + 4000, One)
    ELSE Min(Len(data.criticalVulnerabilities) * 2000 + Len(data.majorRisks) * 1250
               + Len(data.minorRisks) * 250,
             One)

\* calculateContractRisk with the penalty for limited API access added on top of the
\* penalty of an unverified contract.
calculateContractRiskMarkerAdds(data) ==
    IF ~data.verified
    THEN IF HasFailureMarker(data.criticalVulnerabilities)
         THEN Min(2000 + 4000 + 3000, One)
         ELSE Min(2000 + 4000, One)
    ELSE LET c == IF Len(data.criticalVulnerabilities) > 0
                  THEN Min(Len(data.criticalVulnerabilities) * 2000, 4000) ELSE 0
             m == IF Len(data.majorRisks) > 0
                  THEN Min(Len(data.majorRisks) * 1250, 2500) ELSE 0
             n == IF Len(data.minorRisks) > 0
                  THEN Min(Len(data.minorRisks) * 250, 500) ELSE 0
         IN  Min(c + m + n, One)

\* calculateContractRisk without the cap of the minor-issues term.
calculateContractRiskMinorUncapped(data) ==
    IF ~data.verified
    THEN IF HasFailureMarker(data.criticalVulnerabilities)
         THEN Min(2000 + 3000, 7000)
         ELSE Min(2000 + 4000, One)
    ELSE LET c == IF Len(data.criticalVulnerabilities) > 0
                  THEN Min(Len(data.criticalVulnerabilities) * 2000, 4000) ELSE 0
             m == IF Len(data.majorRisks) > 0
                  THEN Min(Len(data.majorRisks) * 1250, 2500) ELSE 0
             n == Len(data.minorRisks) * 250
         IN  Min(c + m + n, One)

calculateContractRisk(data) ==
    IF ~data.verified
    THEN IF HasFailureMarker(data.criticalVulnerabilities)
         THEN Min(2000 + 3000, 7000)
         ELSE Min(2000 + 4000, One)
    ELSE LET c == IF Len(data.criticalVulnerabilities) > 0
                  THEN Min(Len(data.criticalVulnerabilities) * 2000, 4000) ELSE 0
             m == IF Len(data.majorRisks) > 0
                  THEN Min(Len(data.majorRisks) * 1250, 2500) ELSE 0
             n == IF Len(data.minorRisks) > 0
                  THEN Min(Len(data.minorRisks) * 250, 500) ELSE 0
         IN  Min(c + m + n, One)

\* The sum of the weights of the entries whose condition holds (the forEach loops).
RECURSIVE WeightedSum(_)
WeightedSum(risks) ==
    IF risks = <<>> THEN 0
    ELSE (IF Head(risks).condition THEN Head(risks).weight ELSE 0) + WeightedSum(Tail(risks))

\* securityRisks without the entry for contracts that cannot be paused.
securityRisksNoPausable(data) ==
    << [condition |-> data.hasSelfDestruct,    weight |-> 1500],
       [condition |-> data.hasDelegateCall,    weight |-> 1200],
       [condition |-> data.hasUncheckedMath,   weight |-> 800],
       [condition |-> data.hasReentrancyRisk,  weight |-> 2000],
       [condition |-> ~data.hasAccessControl,  weight |-> 1000] >>

securityRisks(data) ==
    << [condition |-> data.hasSelfDestruct,    weight |-> 1500],
       [condition |-> data.hasDelegateCall,    weight |-> 1200],
       [condition |-> data.hasUncheckedMath,   weight |-> 800],
       [condition |-> data.hasReentrancyRisk,  weight |-> 2000],
       [condition |-> ~data.hasAccessControl,  weight |-> 1000],
       [condition |-> ~data.hasPausable,       weight |-> 500] >>

tokenRisks(o) ==
    << [condition |-> o["is_honeypot"] = "1",     weight |-> 3000],
       [condition |-> o["is_blacklisted"] = "1",  weight |-> 2500],
       [condition |-> o["is_scam"] = "1",         weight |-> 3000],
       [condition |-> o["is_high_risk"] = "1",    weight |-> 2000],
       [condition |-> o["cannot_sell_all"] = "1", weight |-> 1500],
       [condition |-> TaxAbove20(o["buy_tax"]),   weight |-> 1000],
       [condition |-> TaxAbove20(o["sell_tax"]),  weight |-> 1000] >>

\* A property read on goPlusData, which raises a TypeError on undefined.
ReadThrows(gp) == ~gp.defined

\* calculateSecurityRisk raises exactly when it reads a field of an undefined oracle.
calculateSecurityRiskThrows(gp, token) == token /\ ReadThrows(gp)

\* calculateSecurityRisk without the final Math.min(securityScore, 1.0).
calculateSecurityRiskUncapped(data, gp, token) ==
    WeightedSum(securityRisks(data))
      + (IF token THEN WeightedSum(tokenRisks(gp.obj)) ELSE 0)

\* calculateSecurityRisk with the oracle's weights added whatever isToken is.
calculateSecurityRiskOracleAlways(data, gp, token) ==
    Min(WeightedSum(securityRisks(data)) + WeightedSum(tokenRisks(gp.obj)), One)

\* The value calculateSecurityRisk returns, when it returns.
calculateSecurityRisk(data, gp, token) ==
    Min(WeightedSum(securityRisks(data))
          + (IF token THEN WeightedSum(tokenRisks(gp.obj)) ELSE 0),
        One)

\* In units of 1/60, in which 0.1 is 6, 0.4 is 24 and k/6 is 10k, all exact.
calculateCodeQuality(data) ==
    IF ~data.verified THEN 6
    ELSE LET qualityFactors ==
                 << data.optimizationEnabled,
                    data.compilerVersion # Absent /\ Includes08(data.compilerVersion),
                    data.hasAccessControl,
                    data.hasPausable,
                    ~data.hasSelfDestruct,
                    ~data.hasDelegateCall >>
         IN  Max(24, (CountTrue(qualityFactors) * 60) \div Len(qualityFactors))

\* The sentences pushed for the entries of flags whose condition holds, in order.
RECURSIVE Pushed(_)
Pushed(flags) ==
    IF flags = <<>> THEN <<>>
    ELSE (IF Head(flags).condition THEN <<Head(flags).sentence>> ELSE <<>>) \o Pushed(Tail(flags))

\* traditionalIssues without the sentence for missing access control.
traditionalIssuesNoAccessControl(data) ==
    << [condition |-> data.hasSelfDestruct,
        sentence |-> "Contract contains selfdestruct functionality"],
       [condition |-> data.hasDelegateCall,
        sentence |-> "Contract uses delegatecall"],
       [condition |-> data.hasReentrancyRisk,
        sentence |-> "Potential reentrancy vulnerability"] >>

traditionalIssues(data) ==
    << [condition |-> data.hasSelfDestruct,
        sentence |-> "Contract contains selfdestruct functionality"],
       [condition |-> data.hasDelegateCall,
        sentence |-> "Contract uses delegatecall"],
       [condition |-> data.hasReentrancyRisk,
        sentence |-> "Potential reentrancy vulnerability"],
       [condition |-> ~data.hasAccessControl,
        sentence |-> "No access control mechanisms found"] >>

goPlusIssues(o) ==
    << [condition |-> o["is_honeypot"] = "1",
        sentence |-> "Token is a honeypot - cannot sell"],
       [condition |-> o["is_blacklisted"] = "1",
        sentence |-> "Token is blacklisted"],
       [condition |-> o["is_scam"] = "1",
        sentence |-> "Token is flagged as a scam"],
       [condition |-> o["is_high_risk"] = "1",
        sentence |-> "Token is considered high risk"],
       [condition |-> o["cannot_sell_all"] = "1",
        sentence |-> "Cannot sell all tokens at once"],
       [condition |-> TaxAbove20(o["buy_tax"]),
        sentence |-> "High buy tax: " \o o["buy_tax"] \o "%"],
       [condition |-> TaxAbove20(o["sell_tax"]),
        sentence |-> "High sell tax: " \o o["sell_tax"] \o "%"],
       [condition |-> o["is_proxy"] = "1",
        sentence |-> "Contract is a proxy - can be upgraded"],
       [condition |-> o["is_mintable"] = "1",
        sentence |-> "Token is mintable - supply can increase"] >>

getSecurityIssuesThrows(gp, token) == token /\ ReadThrows(gp)

\* getSecurityIssues with the minor risks pushed before the token sentences.
getSecurityIssuesMinorBeforeToken(data, gp, token) ==
    LET i1 == IF ~data.verified
              THEN <<"Contract not verified - source code unavailable for analysis">>
              ELSE <<>>
        i2 == i1 \o data.criticalVulnerabilities
        i3 == i2 \o data.majorRisks
        i4 == i3 \o Pushed(traditionalIssues(data)) \o data.minorRisks
    IN  IF token THEN i4 \o Pushed(goPlusIssues(gp.obj)) ELSE i4

\* The list getSecurityIssues returns, when it returns.
getSecurityIssues(data, gp, token) ==
    LET i1 == IF ~data.verified
              THEN <<"Contract not verified - source code unavailable for analysis">>
              ELSE <<>>
        i2 == i1 \o data.criticalVulnerabilities
        i3 == i2 \o data.majorRisks
        i4 == i3 \o Pushed(traditionalIssues(data))
        i5 == IF token THEN i4 \o Pushed(goPlusIssues(gp.obj)) ELSE i4
    IN  i5 \o data.minorRisks

\* The tokenSecurity object of the details (an optional field: the details hold it
\* as a sequence of length 1, and <<>> when it is undefined).
tokenSecurity(o) ==
    [ isHoneypot       |-> o["is_honeypot"] = "1",
      isBlacklisted    |-> o["is_blacklisted"] = "1",
      isProxy          |-> o["is_proxy"] = "1",
      isMintable       |-> o["is_mintable"] = "1",
      isWhitelisted    |-> o["is_whitelisted"] = "1",
      isAntiWhale      |-> o["is_anti_whale"] = "1",
      isTradingEnabled |-> o["is_trading_enabled"] = "1",
      buyTax           |-> ParseFloat(OrZero(o["buy_tax"])),
      sellTax          |-> ParseFloat(OrZero(o["sell_tax"])),
      cannotSellAll    |-> o["cannot_sell_all"] = "1",
      isScam           |-> o["is_scam"] = "1",
      isHighRisk       |-> o["is_high_risk"] = "1" ]

\* overallRisk: (contractRisk + securityRisk) / 2 (line 11).
overallRiskMax(contractRisk, securityRisk) == Max(contractRisk, securityRisk)

overallRisk(contractRisk, securityRisk) == (contractRisk + securityRisk) \div 2

\* The outcome of a call that raised a TypeError.
TypeError == [status |-> "TypeError"]

\* The outcome of calculateRiskMetrics: the RiskMetrics it returns, or the TypeError
\* raised by the first read of a field of an undefined oracle (line 5).
calculateRiskMetrics(data, gp, token) ==
    IF calculateSecurityRiskThrows(gp, token) THEN TypeError
    ELSE LET contractRisk == calculateContractRisk(data)
             securityRisk == calculateSecurityRisk(data, gp, token)
         IN  [ status       |-> "returned",
               contractRisk |-> contractRisk,
               securityRisk |-> securityRisk,
               overallRisk  |-> overallRisk(contractRisk, securityRisk),
               details      |->
                 [ contractVerified    |-> data.verified,
                   codeQuality         |-> calculateCodeQuality(data),
                   securityIssues      |-> getSecurityIssues(data, gp, token),
                   compilerVersion     |-> IF data.compilerVersion = Absent THEN "unknown"
                                           ELSE data.compilerVersion,
                   optimizationEnabled |-> data.optimizationEnabled,
                   isContract          |-> TRUE,
                   isToken             |-> token,
                   tokenSecurity       |-> IF token THEN <<tokenSecurity(gp.obj)>>
                                           ELSE <<>> ] ]

(***************************************************************************)
(* code-analyzer.ts.  A source text is a sequence of lines, each one of    *)
(* the lines below; the text is the lines joined by newlines, and <<>> is  *)
(* the empty string.  A regular expression is the set of the lines it      *)
(* matches, and RegExp.test holds of a text when it matches one of the     *)
(* text's lines; the three expressions whose match can run over a line     *)
(* break (the block comment, the unchecked call followed by require, the   *)
(* onlyOwner body) are modelled on the sequence of lines.                  *)
(***************************************************************************)
FunctionDeclarations ==
    << "function transfer(address to, uint256 amount) external returns (bool);",
       "function transferFrom(address from, address to, uint256 amount) external returns (bool);",
       "function balanceOf(address account) external view returns (uint256);",
       "function approve(address spender, uint256 amount) external returns (bool);",
       "function allowance(address owner, address spender) external view returns (uint256);",
       "function totalSupply() external view returns (uint256);" >>

FunctionImplementations ==
    << "function transfer(address to, uint256 amount) public virtual override returns (bool) {",
       "function transferFrom(address from, address to, uint256 amount) public virtual override returns (bool) {",
       "function balanceOf(address account) public view virtual override returns (uint256) {",
       "function approve(address spender, uint256 amount) public virtual override returns (bool) {",
       "function allowance(address owner, address spender) public view virtual override returns (uint256) {",
       "function totalSupply() public view virtual override returns (uint256) {" >>

EventDeclarations ==
    << "event Transfer(address indexed from, address indexed to, uint256 value);",
       "event Approval(address indexed owner, address indexed spender, uint256 value);" >>

HeaderLines ==
    { "contract Token is ERC20 {",
      "interface IERC20 {",
      "contract Vault {",
      "// contract Token is ERC20 {",
      "string public standard = \"contract Token is ERC20\";",
      "contract Vault is Ownable { IERC20 public asset;" }

\* regex.test(text)
Test(regex, text) == \E i \in 1..Len(text) : text[i] \in regex

\* .replace(/\/\*[\s\S]*?\*\//g, ''): each "/*" line is removed with everything up to
\* the first "*/" line after it; a "/*" that is never closed stays.
RECURSIVE StripBlockComments(_)
StripBlockComments(text) ==
    IF text = <<>> THEN <<>>
    ELSE IF Head(text) = "/*" /\ \E j \in 2..Len(text) : text[j] = "*/"
         THEN LET close == CHOOSE j \in 2..Len(text) :
                               /\ text[j] = "*/"
                               /\ \A k \in 2..(j - 1) : text[k] # "*/"
              IN  StripBlockComments(SubSeq(text, close + 1, Len(text)))
         ELSE <<Head(text)>> \o StripBlockComments(Tail(text))

\* .replace(/\/\/.*$/gm, '').replace(/"[^"]*"/g, '""').replace(/'[^']*'/g, "''") on a line.
CleanLine(line) ==
    CASE line = "// contract Token is ERC20 {" -> ""
      [] line = "// selfdestruct(owner) was removed" -> ""
      [] line = "string public standard = \"contract Token is ERC20\";"
           -> "string public standard = \"\";"
      [] OTHER -> line

cleanCode(sourceCode) ==
    LET stripped == StripBlockComments(sourceCode)
    IN  [i \in 1..Len(stripped) |-> CleanLine(stripped[i])]

\* /(?:contract\s+\w+\s+(?:is\s+.*?)?(?:IERC20|ERC20))|(?:interface\s+(?:IERC20|ERC20))/i
erc20InterfacePattern ==
    { "contract Token is ERC20 {",
      "interface IERC20 {",
      "// contract Token is ERC20 {",
      "string public standard = \"contract Token is ERC20\";",
      "contract Vault is Ownable { IERC20 public asset;" }

\* The six function patterns: transfer, transferFrom and approve accept a declaration
\* and an implementation; balanceOf, allowance and totalSupply want "view returns"
\* right after the visibility, which "view virtual override returns" is not.
erc20FunctionPatterns ==
    << { FunctionDeclarations[1], FunctionImplementations[1] },
       { FunctionDeclarations[2], FunctionImplementations[2] },
       { FunctionDeclarations[3] },
       { FunctionDeclarations[4], FunctionImplementations[4] },
       { FunctionDeclarations[5] },
       { FunctionDeclarations[6] } >>

erc20EventPatterns == << { EventDeclarations[1] }, { EventDeclarations[2] } >>

\* patterns.filter(pattern => pattern.test(text)).length
CountMatching(patterns, text) ==
    Cardinality({ k \in 1..Len(patterns) : Test(patterns[k], text) })

\* isTokenContract with three matching functions taken for enough.
isTokenContractThreeFunctions(sourceCode) ==
    IF sourceCode = <<>> THEN FALSE
    ELSE IF Test(erc20InterfacePattern, cleanCode(sourceCode)) THEN TRUE
    ELSE CountMatching(erc20FunctionPatterns, cleanCode(sourceCode)) >= 3
           /\ CountMatching(erc20EventPatterns, cleanCode(sourceCode)) >= 1

isTokenContract(sourceCode) ==
    IF sourceCode = <<>> THEN FALSE
    ELSE IF Test(erc20InterfacePattern, cleanCode(sourceCode)) THEN TRUE
    ELSE LET functionCount == CountMatching(erc20FunctionPatterns, cleanCode(sourceCode))
             eventCount == CountMatching(erc20EventPatterns, cleanCode(sourceCode))
         IN  functionCount >= 4 /\ eventCount >= 1

\* /selfdestruct\s*\(|suicide\s*\(/
SelfDestructPattern ==
    { "selfdestruct(payable(owner));", "// selfdestruct(owner) was removed", "suicide(owner);" }

\* /delegatecall\s*\(/
DelegateCallPattern == { "impl.delegatecall(data);" }

\* /unchecked\s*\{/
UncheckedMathPattern == { "unchecked { counter++; }" }

\* /\.call\s*\{[^}]*value\s*:/
ValueCallPattern == { "msg.sender.call{value: amount}(data);" }

\* /nonReentrant|ReentrancyGuard|mutex/
ReentrancyGuardPattern == { "function withdraw() external nonReentrant {" }

\* /onlyOwner|onlyAdmin|AccessControl|require\s*\(\s*msg\.sender\s*==/
AccessControlPattern ==
    { "require(msg.sender == owner);",
      "function pause() external onlyOwner whenNotPaused {",
      "function rescue() external onlyOwner { token.transfer(owner, balance); }" }

\* /pausable|pause\(\)|unpause\(\)|whenNotPaused/
PausablePattern == { "function pause() external onlyOwner whenNotPaused {" }

\* /\.call\s*\([^)]*\)(?!\s*;\s*require\()/ : the lines that end in a call statement,
\* which match unless the next line starts with require( .
CallStatementLines == { "target.call(data);" }

RequireLines == { "require(msg.sender == owner);", "require(tx.origin == owner);" }

TestUncheckedCall(text) ==
    \E i \in 1..Len(text) :
        /\ text[i] \in CallStatementLines
        /\ ~(i < Len(text) /\ text[i + 1] \in RequireLines)

\* /tx\.origin\s*==|msg\.sender\s*==\s*tx\.origin/
TxOriginPattern == { "require(tx.origin == owner);" }

\* /function\s+\w*[mM]int\w*\s*\([^)]*\)\s+(private|internal)/
HiddenMintPattern == { "function _mint(address to, uint256 amount) internal {" }

\* /onlyOwner.*\{[^}]*(_mint\(|transfer\()/ : a line that matches by itself, or a line
\* with onlyOwner and an open brace, then lines without "}", then a line with _mint( or
\* transfer( before any "}" of its own.
AdminMintLines == { "function rescue() external onlyOwner { token.transfer(owner, balance); }" }

OnlyOwnerOpenLines == { "function pause() external onlyOwner whenNotPaused {" }

MintOrTransferLines ==
    { FunctionDeclarations[1], FunctionImplementations[1],
      "function _mint(address to, uint256 amount) internal {",
      "function rescue() external onlyOwner { token.transfer(owner, balance); }" }

ClosingBraceLines ==
    { "}", "msg.sender.call{value: amount}(data);",
      "function rescue() external onlyOwner { token.transfer(owner, balance); }",
      "assembly { size := extcodesize(account) }", "unchecked { counter++; }" }

TestAdminMint(text) ==
    \/ Test(AdminMintLines, text)
    \/ \E i \in 1..Len(text) : \E j \in (i + 1)..Len(text) :
          /\ text[i] \in OnlyOwnerOpenLines
          /\ text[j] \in MintOrTransferLines
          /\ \A k \in (i + 1)..(j - 1) : text[k] \notin ClosingBraceLines

\* /upgradeTo\(|upgradeToAndCall\(/
UpgradePattern == { "upgradeTo(newImplementation);" }

\* /mapping\s*\([^)]*\)\s+\w*[bB]lacklist/
BlacklistPattern == { "mapping(address => bool) isBlacklisted;" }

\* /pragma\s+solidity\s+\^?0\.[0-7]\./
OldPragmaPattern == { "pragma solidity ^0.7.6;" }

\* /assembly\s*\{/
AssemblyPattern == { "assembly { size := extcodesize(account) }" }

\* The findings returned for the empty source, with hasAccessControl reported true.
EmptyFindingsAccessControlled ==
    [ hasSelfDestruct         |-> FALSE,
      hasDelegateCall         |-> FALSE,
      hasUncheckedMath        |-> FALSE,
      hasReentrancyRisk       |-> FALSE,
      hasAccessControl        |-> TRUE,
      hasPausable             |-> FALSE,
      criticalVulnerabilities |-> <<>>,
      majorRisks              |-> <<>>,
      minorRisks              |-> <<>> ]

\* The findings for the empty source carrying a failure marker.
EmptyFindingsAnalysisFailed ==
    [ hasSelfDestruct         |-> FALSE,
      hasDelegateCall         |-> FALSE,
      hasUncheckedMath        |-> FALSE,
      hasReentrancyRisk       |-> FALSE,
      hasAccessControl        |-> FALSE,
      hasPausable             |-> FALSE,
      criticalVulnerabilities |-> <<"Source analysis failed">>,
      majorRisks              |-> <<>>,
      minorRisks              |-> <<>> ]

\* The findings returned for the empty source (lines 37-49).
EmptyFindings ==
    [ hasSelfDestruct         |-> FALSE,
      hasDelegateCall         |-> FALSE,
      hasUncheckedMath        |-> FALSE,
      hasReentrancyRisk       |-> FALSE,
      hasAccessControl        |-> FALSE,
      hasPausable             |-> FALSE,
      criticalVulnerabilities |-> <<>>,
      majorRisks              |-> <<>>,
      minorRisks              |-> <<>> ]

\* <<x>> if b, and <<>> otherwise (a conditional push).
If(b, x) == IF b THEN <<x>> ELSE <<>>

\* hasSelfDestruct with only the second alternative of the pattern.
hasSelfDestructSuicideOnly(sourceCode) == Test({"suicide(owner);"}, sourceCode)

hasSelfDestruct(sourceCode) == Test(SelfDestructPattern, sourceCode)

\* analyzeSolidityCode without the push of the reentrancy entry.
analyzeSolidityCodeNoReentrancyEntry(sourceCode) ==
    IF sourceCode = <<>> THEN EmptyFindings
    ELSE LET hasReentrancyRisk ==
                 Test(ValueCallPattern, sourceCode) /\ ~Test(ReentrancyGuardPattern, sourceCode)
         IN  [ hasSelfDestruct   |-> hasSelfDestruct(sourceCode),
               hasDelegateCall   |-> Test(DelegateCallPattern, sourceCode),
               hasUncheckedMath  |-> Test(UncheckedMathPattern, sourceCode),
               hasReentrancyRisk |-> hasReentrancyRisk,
               hasAccessControl  |-> Test(AccessControlPattern, sourceCode),
               hasPausable       |-> Test(PausablePattern, sourceCode),
               criticalVulnerabilities |->
                   If(TestUncheckedCall(sourceCode),
                      "Unchecked low-level call - return value not verified")
                     \o If(Test(TxOriginPattern, sourceCode),
                           "Using tx.origin for authorization (phishing vulnerability)"),
               majorRisks |->
                   If(Test(HiddenMintPattern, sourceCode), "Hidden mint function detected")
                     \o If(TestAdminMint(sourceCode),
                           "Admin can mint tokens or transfer user funds")
                     \o If(Test(UpgradePattern, sourceCode),
                           "Upgradeable contract - admin can change logic")
                     \o If(Test(BlacklistPattern, sourceCode),
                           "Contract can blacklist addresses"),
               minorRisks |->
                   If(Test(OldPragmaPattern, sourceCode), "Using outdated Solidity version")
                     \o If(Test(AssemblyPattern, sourceCode),
                           "Uses inline assembly - increased complexity") ]

analyzeSolidityCode(sourceCode) ==
    IF sourceCode = <<>> THEN EmptyFindings
    ELSE LET hasReentrancyRisk ==
                 Test(ValueCallPattern, sourceCode) /\ ~Test(ReentrancyGuardPattern, sourceCode)
         IN  [ hasSelfDestruct   |-> hasSelfDestruct(sourceCode),
               hasDelegateCall   |-> Test(DelegateCallPattern, sourceCode),
               hasUncheckedMath  |-> Test(UncheckedMathPattern, sourceCode),
               hasReentrancyRisk |-> hasReentrancyRisk,
               hasAccessControl  |-> Test(AccessControlPattern, sourceCode),
               hasPausable       |-> Test(PausablePattern, sourceCode),
               criticalVulnerabilities |->
                   If(TestUncheckedCall(sourceCode),
                      "Unchecked low-level call - return value not verified")
                     \o If(Test(TxOriginPattern, sourceCode),
                           "Using tx.origin for authorization (phishing vulnerability)")
                     \o If(hasReentrancyRisk,
                           "Potential reentrancy vulnerability in external calls"),
               majorRisks |->
                   If(Test(HiddenMintPattern, sourceCode), "Hidden mint function detected")
                     \o If(TestAdminMint(sourceCode),
                           "Admin can mint tokens or transfer user funds")
                     \o If(Test(UpgradePattern, sourceCode),
                           "Upgradeable contract - admin can change logic")
                     \o If(Test(BlacklistPattern, sourceCode),
                           "Contract can blacklist addresses"),
               minorRisks |->
                   If(Test(OldPragmaPattern, sourceCode), "Using outdated Solidity version")
                     \o If(Test(AssemblyPattern, sourceCode),
                           "Uses inline assembly - increased complexity") ]

(***************************************************************************)
(* The inputs of a call.  The full product of all fields is out of reach,  *)
(* so the inputs are the union of families, each exhaustive over the       *)
(* fields that one part of the calculator reads together.                  *)
(***************************************************************************)
\* The sequences over S of length at most n.
SeqsUpTo(S, n) == UNION { [1..k -> S] : k \in 0..n }

FlagNames ==
    { "hasSelfDestruct", "hasDelegateCall", "hasUncheckedMath", "hasReentrancyRisk",
      "hasAccessControl", "hasPausable" }

\* A ContractData record (types.ts) with the fields the calculator reads.
ContractData(verified, version, optimized, flags, critical, major, minor) ==
    [ verified                |-> verified,
      sourceCode              |-> <<"contract Test {}">>,
      compilerVersion         |-> version,
      optimizationEnabled     |-> optimized,
      hasSelfDestruct         |-> flags["hasSelfDestruct"],
      hasDelegateCall         |-> flags["hasDelegateCall"],
      hasUncheckedMath        |-> flags["hasUncheckedMath"],
      hasReentrancyRisk       |-> flags["hasReentrancyRisk"],
      hasAccessControl        |-> flags["hasAccessControl"],
      hasPausable             |-> flags["hasPausable"],
      criticalVulnerabilities |-> critical,
      majorRisks              |-> major,
      minorRisks              |-> minor ]

AllFlags == [FlagNames -> BOOLEAN]

NoFlags == [f \in FlagNames |-> FALSE]

Defined(o) == [defined |-> TRUE, obj |-> o]

Undefined == [defined |-> FALSE, obj |-> EmptyObject]

Input(data, gp, token) == [data |-> data, gp |-> gp, token |-> token]

\* Every verification status and every triple of vulnerability lists.
ListInputs ==
    { Input(ContractData(v, "v0.8.19+commit.7dd6d404", TRUE, NoFlags, c, m, n),
            Defined(EmptyObject), FALSE) :
        v \in BOOLEAN, c \in SeqsUpTo(CriticalEntries, MaxLen),
        m \in SeqsUpTo(MajorEntries, MaxLen), n \in SeqsUpTo(MinorEntries, MaxLen) }

\* Every combination of the six analyzer flags with the oracle's risk flags.
FlagInputs ==
    { Input(ContractData(TRUE, "v0.8.19+commit.7dd6d404", TRUE, fl, <<>>, <<>>, <<>>),
            gp, t) :
        fl \in AllFlags, t \in BOOLEAN,
        gp \in {Undefined} \cup
               { Defined([f \in GoPlusFields |->
                           CASE f \in DOMAIN r     -> r[f]
                             [] f \in DOMAIN taxes -> taxes[f]
                             [] OTHER              -> Absent]) :
                   r \in [{"is_honeypot", "is_blacklisted", "is_scam", "is_high_risk",
                           "cannot_sell_all"} -> {Absent, "1"}],
                   taxes \in [{"buy_tax", "sell_tax"} -> {Absent, "20.5"}] } }

\* Every value of every oracle field the score and the issues read.
OracleInputs ==
    { Input(ContractData(TRUE, "v0.8.19+commit.7dd6d404", TRUE, NoFlags, <<>>, <<>>, <<>>),
            Defined([f \in GoPlusFields |->
                       CASE f \in DOMAIN r -> r[f]
                         [] f \in DOMAIN u -> u[f]
                         [] f = "buy_tax"  -> buy
                         [] f = "sell_tax" -> sell
                         [] OTHER          -> Absent]),
            TRUE) :
        r \in [{"is_honeypot", "is_blacklisted", "is_scam", "is_high_risk",
                "cannot_sell_all"} -> {Absent, "0", "1"}],
        u \in [{"is_proxy", "is_mintable"} -> {Absent, "1"}],
        buy \in TaxStrings \cup {Absent}, sell \in {Absent, "21"} }

\* The oracle fields that only the tokenSecurity details read.
DetailInputs ==
    { Input(ContractData(TRUE, "v0.8.19+commit.7dd6d404", TRUE, NoFlags, <<>>, <<>>, <<>>),
            Defined([f \in GoPlusFields |-> IF f \in DOMAIN u THEN u[f] ELSE Absent]), t) :
        t \in BOOLEAN,
        u \in [{"is_open_source", "is_whitelisted", "is_anti_whale", "is_trading_enabled"}
                 -> {Absent, "0", "1"}] }

\* A token oracle reply with one flag, one high tax and one upgrade capability set.
SampleReply ==
    [f \in GoPlusFields |->
       CASE f = "is_honeypot" -> "1"
         [] f = "buy_tax"     -> "21"
         [] f = "is_mintable" -> "1"
         [] OTHER             -> Absent]

\* Flags, short lists, verification and a token reply together (the issue list).
MixedInputs ==
    { Input(ContractData(v, "v0.8.19+commit.7dd6d404", TRUE, fl, c, m, n), gp, t) :
        v \in BOOLEAN, fl \in AllFlags, t \in BOOLEAN,
        gp \in {Defined(EmptyObject), Defined(SampleReply)},
        c \in SeqsUpTo({"Using tx.origin for authorization (phishing vulnerability)"}, 1),
        m \in SeqsUpTo({"Hidden mint function detected"}, 1),
        n \in SeqsUpTo({"Uses inline assembly - increased complexity"}, 1) }

\* Compiler version and optimisation with the flags (the code quality).
QualityInputs ==
    { Input(ContractData(v, cv, opt, fl, <<>>, <<>>, <<>>), Defined(EmptyObject), FALSE) :
        v \in BOOLEAN, cv \in CompilerVersions, opt \in BOOLEAN, fl \in AllFlags }

\* The profiles of the test script's mock contract data.
ContractTypes == { "popular", "hacked", "low_quality", "default" }

\* createMockContractData(contractType, isVerified): the base record (no risk flag,
\* access control and pausable, compiler 0.8.19, optimised, empty lists) adjusted by
\* the profile.
createMockContractData(contractType, isVerified) ==
    LET base == [NoFlags EXCEPT !["hasAccessControl"] = TRUE, !["hasPausable"] = TRUE]
    IN  CASE contractType = "popular" ->
               ContractData(TRUE, "0.8.19", TRUE, base, <<>>, <<>>, <<>>)
          [] contractType = "hacked" ->
               ContractData(FALSE, "0.8.19", TRUE,
                            [base EXCEPT !["hasReentrancyRisk"] = TRUE,
                                         !["hasSelfDestruct"] = TRUE],
                            <<"Reentrancy vulnerability", "Selfdestruct function">>,
                            <<"Admin privileges">>, <<>>)
          [] contractType = "low_quality" ->
               ContractData(FALSE, "0.8.19", TRUE,
                            [base EXCEPT !["hasDelegateCall"] = TRUE,
                                         !["hasUncheckedMath"] = TRUE],
                            <<>>,
                            <<"Unchecked math operations", "Delegate call risks">>,
                            <<"No access control">>)
          [] OTHER ->
               ContractData(isVerified, "0.8.19", TRUE, base, <<>>, <<>>, <<>>)

\* The calls of the test script: calculateRiskMetrics(mockData, {}, false, address).
MockInputs ==
    { Input(createMockContractData(t, v), Defined(EmptyObject), FALSE) :
        t \in ContractTypes, v \in BOOLEAN }

\* Long lists together with every risk flag and a token reply with every flag set
\* (the largest scores).
CombinedInputs ==
    { Input(ContractData(v, "v0.8.19+commit.7dd6d404", TRUE, fl,
                         [i \in 1..c |-> "Source analysis failed"],
                         [i \in 1..m |-> "Upgradeable contract - admin can change logic"],
                         [i \in 1..n |-> "Using outdated Solidity version"]),
            Defined([f \in GoPlusFields |->
                       IF ~set THEN Absent
                       ELSE IF f \in {"buy_tax", "sell_tax"} THEN "21" ELSE "1"]), t) :
        v \in BOOLEAN, t \in BOOLEAN, set \in BOOLEAN,
        fl \in { NoFlags, [f \in FlagNames |-> f \notin {"hasAccessControl", "hasPausable"}] },
        c \in 0..MaxLen, m \in 0..MaxLen, n \in 0..MaxLen }

(***************************************************************************)
(* The source texts of a block-explorer reply.                             *)
(***************************************************************************)
\* The entries of seq at the positions in keep, in order.
Pick(seq, keep) == SelectSeq([i \in 1..Len(seq) |-> IF i \in keep THEN <<seq[i]>> ELSE <<>>],
                             LAMBDA x : x # <<>>)

RECURSIVE Flatten(_)
Flatten(seqs) == IF seqs = <<>> THEN <<>> ELSE Head(seqs) \o Flatten(Tail(seqs))

SubSeqOf(seq, keep) == Flatten(Pick(seq, keep))

\* An optional header, any of the six functions (all declared or all implemented,
\* possibly inside a block comment) and any of the two events.
TokenSources ==
    { h \o (IF wrap THEN <<"/*">> ELSE <<>>) \o SubSeqOf(fns, keep)
        \o (IF wrap THEN <<"*/">> ELSE <<>>) \o SubSeqOf(EventDeclarations, events) :
        h \in {<<>>} \cup { <<l>> : l \in HeaderLines }, wrap \in BOOLEAN,
        fns \in {FunctionDeclarations, FunctionImplementations},
        keep \in SUBSET (1..6), events \in SUBSET (1..2) }

\* The lines whose order matters to the analyzer, in any order.
OrderedLines ==
    { "selfdestruct(payable(owner));",
      "// selfdestruct(owner) was removed",
      "msg.sender.call{value: amount}(data);",
      "function withdraw() external nonReentrant {",
      "target.call(data);",
      "require(msg.sender == owner);",
      "function pause() external onlyOwner whenNotPaused {",
      "}",
      "function _mint(address to, uint256 amount) internal {",
      FunctionDeclarations[1] }

OrderedSources == SeqsUpTo(OrderedLines, MaxLines)

\* One line for each finding of the analyzer, and the lines that look like one.
FindingLines ==
    << "target.call(data);",
       "require(tx.origin == owner);",
       "msg.sender.call{value: amount}(data);",
       "function withdraw() external nonReentrant {",
       "function _mint(address to, uint256 amount) internal {",
       "function rescue() external onlyOwner { token.transfer(owner, balance); }",
       "upgradeTo(newImplementation);",
       "mapping(address => bool) isBlacklisted;",
       "pragma solidity ^0.7.6;",
       "assembly { size := extcodesize(account) }" >>

OtherLines ==
    << "suicide(owner);", "impl.delegatecall(data);", "unchecked { counter++; }",
       "pragma solidity ^0.8.19;", "mapping(address => bool) public blacklist;" >>

\* The lines of the three critical findings, in another order than their detection,
\* the call statement not followed by a require.
CriticalLines ==
    << "require(tx.origin == owner);", "target.call(data);",
       "msg.sender.call{value: amount}(data);" >>

FindingSources ==
    { SubSeqOf(FindingLines, keep) : keep \in SUBSET (1..Len(FindingLines)) }
      \cup { SubSeqOf(OtherLines, keep) : keep \in SUBSET (1..Len(OtherLines)) }
      \cup { SubSeqOf(CriticalLines, keep) \o rest :
               keep \in SUBSET (1..Len(CriticalLines)),
               rest \in { <<>>, SubSeq(FindingLines, 5, Len(FindingLines)) } }

\* A SourceCode field holding the text, and one that is missing from the reply.
Text(text) == [defined |-> TRUE, text |-> text]

NoText == [defined |-> FALSE, text |-> <<>>]

\* result[0] of the getsourcecode reply; SourceCode is "" for an unverified contract.
Response(source) ==
    [ SourceCode       |-> source,
      CompilerVersion  |-> "v0.8.19+commit.7dd6d404",
      OptimizationUsed |-> "1" ]

NoResponse == Response(NoText)

NoResult == [status |-> "none"]

NoData == ContractData(FALSE, Absent, FALSE, NoFlags, <<>>, <<>>, <<>>)

(***************************************************************************)
(* The route: addresses, replies of the bytecode lookup, responses.        *)
(***************************************************************************)
ContractAddress == "0xdAC17F958D2ee523a2206206994597C13D831ec7"

\* searchParams.get("address"): Absent is null (no such parameter).
Addresses == { Absent, "", "not-an-address", ContractAddress }

\* A request that threw (network error, timeout, status outside 2xx).
Throws == [ok |-> FALSE, result |-> Absent]

Replied(value) == [ok |-> TRUE, result |-> value]

\* The replies of eth_getCode: response.data.result is "0x" for an address without
\* code, the bytecode of a contract, missing from an error reply of the JSON-RPC proxy,
\* or a message of the block explorer in the place of the result.
BytecodeReplies ==
    { Throws, Replied("0x"), Replied("0x0"), Replied(""), Replied("0x6080604052"),
      Replied(Absent), Replied("Max rate limit reached") }

\* bytecode.length
StringLength(str) ==
    CASE str = ""                       -> 0
      [] str = "0x"                     -> 2
      [] str = "0x0"                    -> 3
      [] str = "0x6080604052"           -> 12
      [] str = "Max rate limit reached" -> 22

\* checkIsEthereumContract answering true when its request threw.
checkIsEthereumContractTrueOnError(reply) ==
    IF ~reply.ok THEN TRUE ELSE reply.result \notin {"0x", "0x0"}

\* checkIsEthereumContract: false on an error, else result !== '0x' && result !== '0x0'.
checkIsEthereumContract(reply) ==
    IF ~reply.ok THEN FALSE ELSE reply.result \notin {"0x", "0x0"}

\* checkIsContract: false on an error (the TypeError of undefined.length included), else
\* bytecode !== '0x' && bytecode !== '0x0' && bytecode.length > 2.
checkIsContract(reply) ==
    IF ~reply.ok THEN FALSE
    ELSE IF reply.result \in {"0x", "0x0"} THEN FALSE
    ELSE IF reply.result = Absent THEN FALSE
    ELSE StringLength(reply.result) > 2

AddressRequired == [error |-> "Address parameter is required"]

NetworkNotSupported ==
    [ error   |-> "Network not supported",
      message |-> "This tool only works with Ethereum mainnet contracts. The provided address was not found on Ethereum.",
      details |-> "Please provide a valid Ethereum mainnet contract address." ]

\* The payload of the second check without its explanatory fields.
NotAContractErrorOnly == [error |-> "This tool only works with smart contracts"]

NotAContract ==
    [ error   |-> "This tool only works with smart contracts",
      message |-> "The provided address is not a smart contract. Please provide a valid smart contract address to analyze its risk metrics.",
      details |-> "Smart contracts are programs that run on the Ethereum blockchain. Regular wallet addresses cannot be analyzed by this tool." ]

\* Another body for the answer of the catch.
AnalysisFailedOther == [error |-> "Internal server error"]

AnalysisFailed == [error |-> "Failed to perform risk analysis"]

\* NextResponse.json(body, { status })
Json(body, status) == [status |-> status, body |-> body]

\* The six collectors of the multi-factor variant, and those whose body is a try/catch
\* that returns default values.
Collectors == { "source", "pool", "security", "market", "governance", "social" }

Catching == { "pool", "market", "governance", "social" }

NoPromises == [c \in Collectors |-> "idle"]

\* The part of a NextRequest the middleware reads: nextUrl.pathname, method and the
\* names of nextUrl.searchParams.  NoRequest stands for a call that is not an HTTP
\* request passing the middleware.
Req(pathname, method, searchParams) ==
    [pathname |-> pathname, method |-> method, searchParams |-> searchParams]

NoRequest == Req(Absent, Absent, {})

\* No request issued yet by any collector.
NoRequests == [c \in Collectors |-> <<>>]

(***************************************************************************)
(* config/tools.ts and middleware.ts.                                      *)
(***************************************************************************)
\* toolConfigs: the endpoint of each tool and the names of its required parameters
\* (schema.parameters filtered by required).
toolConfigs ==
    [ getBlockchains    |-> [endpoint |-> "/api/tools/get-blockchains", required |-> <<>>],
      getUser           |-> [endpoint |-> "/api/tools/get-user", required |-> <<>>],
      reddit            |-> [endpoint |-> "/api/tools/reddit", required |-> <<>>],
      twitter           |-> [endpoint |-> "/api/tools/twitter", required |-> <<"text">>],
      createTransaction |-> [endpoint |-> "/api/tools/create-transaction",
                             required |-> <<"receiverId", "amount">>],
      coinflip          |-> [endpoint |-> "/api/tools/coinflip", required |-> <<>>] ]

RiskAnalyzerPath == "/api/tools/risk-analyzer"

\* The paths a request is drawn from: the route handlers under app/api, a tool that is
\* configured without a handler, and paths that are neither.
Pathnames ==
    { RiskAnalyzerPath, "/api/tools/get-blockchains", "/api/tools/get-user",
      "/api/tools/reddit", "/api/tools/twitter", "/api/tools/create-transaction",
      "/api/tools/coinflip", "/api/tools/no-such-tool", "/api/tools/", "/api/ai-plugin" }

\* pathname.startsWith('/api/tools/')
StartsWithApiTools(pathname) == pathname # "/api/ai-plugin"

ParamNames == { "address", "text", "receiverId", "amount" }

Requests ==
    { Req(p, m, names) : p \in Pathnames, m \in {"GET", "POST"}, names \in SUBSET ParamNames }

ToolNotFound == [error |-> "Tool not found"]

MissingRequiredParameter(name) == [error |-> "Missing required parameter: " \o name]

\* NextResponse.next(): no response of the middleware's own (status 0 stands for none).
PassOn == [status |-> 0, body |-> [next |-> TRUE]]

\* Object.values(toolConfigs).find(config => config.endpoint === `/api/tools/${toolPath}`)
\* where toolPath is the pathname without its prefix /api/tools/ : the tools whose
\* endpoint is the pathname (at most one; none is undefined).
FindTool(pathname) == { t \in DOMAIN toolConfigs : toolConfigs[t].endpoint = pathname }

\* The first required parameter that searchParams does not have, as a sequence of
\* length one, and <<>> when it has them all.
RECURSIVE FirstMissing(_, _)
FirstMissing(required, searchParams) ==
    IF required = <<>> THEN <<>>
    ELSE IF Head(required) \notin searchParams THEN <<Head(required)>>
    ELSE FirstMissing(Tail(required), searchParams)

\* middleware(request): the response it returns, or PassOn.
middleware(req) ==
    IF ~StartsWithApiTools(req.pathname) THEN PassOn
    ELSE IF FindTool(req.pathname) = {} THEN Json(ToolNotFound, 404)
    ELSE LET tool == toolConfigs[CHOOSE t \in FindTool(req.pathname) : TRUE]
             missing == FirstMissing(tool.required, req.searchParams)
         IN  IF req.method = "GET" /\ missing # <<>>
             THEN Json(MissingRequiredParameter(missing[1]), 400)
             ELSE PassOn

\* A request to the application, before the middleware.
InitMiddleware ==
    /\ caller = "middleware"
    /\ request \in Requests
    /\ address = IF "address" \in request.searchParams THEN ContractAddress ELSE Absent
    /\ response = NoResponse
    /\ contractData = NoData
    /\ goPlusData = Defined(EmptyObject)
    /\ isToken = FALSE
    /\ result = NoResult
    /\ pc = "middleware"
    /\ calls = <<>>
    /\ http = <<>>
    /\ promises = NoPromises
    /\ requests = NoRequests

\* The state before a call whose arguments are drawn from the family S, as the test
\* scripts call calculateRiskMetrics on records of their own.
InitFrom(S) ==
    /\ \E in \in S :
         /\ contractData = in.data
         /\ goPlusData = in.gp
         /\ isToken = in.token
    /\ caller = "test"
    /\ address = ContractAddress
    /\ response = NoResponse
    /\ result = NoResult
    /\ pc = "call"
    /\ calls = <<>>
    /\ http = <<>>
    /\ promises = NoPromises
    /\ requests = NoRequests
    /\ request = NoRequest

\* A request to the route: const address = searchParams.get("address").
InitRequest ==
    /\ caller = "route"
    /\ address \in Addresses
    /\ response = NoResponse
    /\ contractData = NoData
    /\ goPlusData = Defined(EmptyObject)
    /\ isToken = FALSE
    /\ result = NoResult
    /\ pc = "request"
    /\ calls = <<>>
    /\ http = <<>>
    /\ promises = NoPromises
    /\ requests = NoRequests
    /\ request = NoRequest

\* The multi-factor variant at its Promise.all: the six collectors are started.
InitGather ==
    /\ caller = "multi"
    /\ address = ContractAddress
    /\ response = NoResponse
    /\ contractData = NoData
    /\ goPlusData = Defined(EmptyObject)
    /\ isToken = FALSE
    /\ result = NoResult
    /\ pc = "gather"
    /\ calls = <<>>
    /\ http = <<>>
    /\ promises = [c \in Collectors |-> "pending"]
    /\ requests = NoRequests
    /\ request = NoRequest

Init ==
    \/ InitFrom(ListInputs)
    \/ InitFrom(FlagInputs)
    \/ InitFrom(OracleInputs)
    \/ InitFrom(DetailInputs)
    \/ InitFrom(MixedInputs)
    \/ InitFrom(QualityInputs)
    \/ InitFrom(MockInputs)
    \/ InitFrom(CombinedInputs)
    \/ InitRequest
    \/ InitGather
    \/ InitMiddleware

\* getContractData, from the reply on (types.ts lines 118-134): sourceCode is
\* SourceCode || '' and verified is SourceCode !== "".
getContractData(reply) ==
    LET sourceCode == IF reply.SourceCode.defined THEN reply.SourceCode.text ELSE <<>>
        codeAnalysis == analyzeSolidityCode(sourceCode)
    IN  [ verified                |-> reply.SourceCode # Text(<<>>),
          sourceCode              |-> sourceCode,
          compilerVersion         |-> reply.CompilerVersion,
          optimizationEnabled     |-> reply.OptimizationUsed = "1",
          hasSelfDestruct         |-> codeAnalysis.hasSelfDestruct,
          hasDelegateCall         |-> codeAnalysis.hasDelegateCall,
          hasUncheckedMath        |-> codeAnalysis.hasUncheckedMath,
          hasReentrancyRisk       |-> codeAnalysis.hasReentrancyRisk,
          hasAccessControl        |-> codeAnalysis.hasAccessControl,
          hasPausable             |-> codeAnalysis.hasPausable,
          criticalVulnerabilities |-> codeAnalysis.criticalVulnerabilities,
          majorRisks              |-> codeAnalysis.majorRisks,
          minorRisks              |-> codeAnalysis.minorRisks ]

\* The ways getContractData raises, as the calls made up to the exception: the source
\* lookup throws; the txlist lookup throws; a reply has no result[0] to read from
\* (txResponse.data.result[0] of undefined, result[0].SourceCode of undefined).
GetContractDataFailures ==
    { <<"getsourcecode -> throws">>,
      <<"getsourcecode", "txlist -> throws">>,
      <<"getsourcecode", "txlist", "TypeError">> }

\* return NextResponse.json(body, { status }): the handler ends with this response.
Return(body, status) ==
    /\ http' = Append(http, Json(body, status))
    /\ pc' = "responded"

\* The middleware runs on the request: it answers, or passes the request on, to the
\* GET of the risk analyzer if that is its route, and to a route that is not modelled
\* (or to none) otherwise.
Middleware ==
    /\ caller = "middleware"
    /\ pc = "middleware"
    /\ calls' = Append(calls, "middleware")
    /\ IF middleware(request) # PassOn
       THEN /\ Return(middleware(request).body, middleware(request).status)
            /\ caller' = caller
       ELSE IF request.pathname = RiskAnalyzerPath /\ request.method = "GET"
       THEN /\ caller' = "route"
            /\ pc' = "request"
            /\ http' = http
       ELSE /\ caller' = caller
            /\ pc' = "next"
            /\ http' = http
    /\ UNCHANGED <<address, response, contractData, goPlusData, isToken, result,
                   promises, requests, request>>

\* The entry of the calls for an eth_getCode request that threw (the catch of the
\* check logs the error and returns false), and none for one that was replied to.
Lookup(reply) == IF reply.ok THEN <<>> ELSE <<"eth_getCode -> throws">>

\* if (!address) return 400
CheckAddress ==
    /\ caller = "route"
    /\ pc = "request"
    /\ IF address \in {Absent, ""}
       THEN Return(AddressRequired, 400)
       ELSE pc' = "ethereum" /\ http' = http
    /\ UNCHANGED <<caller, address, response, contractData, goPlusData, isToken, result,
                   calls, promises, requests, request>>

\* const isEthereumContract = await checkIsEthereumContract(address); 200 if false
CheckIsEthereumContract ==
    /\ caller = "route"
    /\ pc = "ethereum"
    /\ \E reply \in BytecodeReplies :
         IF ~checkIsEthereumContract(reply)
         THEN /\ calls' = calls \o Lookup(reply) \o <<"checkIsEthereumContract -> false">>
              /\ Return(NetworkNotSupported, 200)
         ELSE /\ calls' = calls \o Lookup(reply) \o <<"checkIsEthereumContract -> true">>
              /\ pc' = "contract"
              /\ http' = http
    /\ UNCHANGED <<caller, address, response, contractData, goPlusData, isToken, result,
                   promises, requests, request>>

\* const isContract = await checkIsContract(address); 400 if false
CheckIsContract ==
    /\ caller = "route"
    /\ pc = "contract"
    /\ \E reply \in BytecodeReplies :
         IF ~checkIsContract(reply)
         THEN /\ calls' = calls \o Lookup(reply) \o <<"checkIsContract -> false">>
              /\ Return(NotAContract, 400)
         ELSE /\ calls' = calls \o Lookup(reply) \o <<"checkIsContract -> true">>
              /\ pc' = "source"
              /\ http' = http
    /\ UNCHANGED <<caller, address, response, contractData, goPlusData, isToken, result,
                   promises, requests, request>>

\* getContractData without the call of analyzeSolidityCode in it.
FetchedNotAnalyzed(source) ==
    /\ response' = Response(source)
    /\ contractData' = getContractData(Response(source))
    /\ calls' = calls \o <<"getsourcecode", "txlist">>
    /\ pc' = "classify"
    /\ http' = http

\* getContractData with a reply whose result[0] carries the source text source.
Fetched(source) ==
    /\ response' = Response(source)
    /\ contractData' = getContractData(Response(source))
    /\ calls' = calls \o <<"getsourcecode", "txlist", "analyzeSolidityCode">>
    /\ pc' = "classify"
    /\ http' = http

\* const contractData = await getContractData(address).  The function has no try: a
\* lookup that throws, and a reply without result[0], raise into the catch of GET,
\* which answers 500.
GetContractData ==
    /\ caller = "route"
    /\ pc = "source"
    /\ \/ \E text \in TokenSources : Fetched(Text(text))
       \/ \E text \in OrderedSources : Fetched(Text(text))
       \/ \E text \in FindingSources : Fetched(Text(text))
       \/ Fetched(NoText)
       \/ \E raised \in GetContractDataFailures :
            /\ calls' = calls \o raised
            /\ Return(AnalysisFailed, 500)
            /\ UNCHANGED <<response, contractData, request>>
    /\ UNCHANGED <<caller, address, goPlusData, isToken, result, promises, requests, request>>

\* const isToken = isTokenContract(contractData.sourceCode)
IsTokenContract ==
    /\ pc = "classify"
    /\ isToken' = isTokenContract(contractData.sourceCode)
    /\ calls' = Append(calls, "isTokenContract")
    /\ pc' = "security"
    /\ UNCHANGED <<caller, address, response, contractData, goPlusData, result, http,
                   promises, requests, request>>

\* The replies of the token-security oracle: getGoPlusSecurity returns the record of
\* the address, or {} when there is none or the request failed.
GoPlusReplies == { Defined(EmptyObject), Defined(SampleReply) }

\* The oracle asked whatever the classification.
GetGoPlusSecurityAlways ==
    /\ pc = "security"
    /\ goPlusData' \in GoPlusReplies
    /\ calls' = Append(calls, "getGoPlusSecurity")
    /\ pc' = "call"
    /\ UNCHANGED <<caller, address, response, contractData, isToken, result, http,
                   promises, requests, request>>

\* const goPlusData = isToken ? await getGoPlusSecurity(address) : {}
GetGoPlusSecurity ==
    /\ pc = "security"
    /\ IF isToken
       THEN /\ goPlusData' \in GoPlusReplies
            /\ calls' = Append(calls, "getGoPlusSecurity")
       ELSE /\ goPlusData' = Defined(EmptyObject)
            /\ calls' = calls
    /\ pc' = "call"
    /\ UNCHANGED <<caller, address, response, contractData, isToken, result, http,
                   promises, requests, request>>

\* One call of calculateRiskMetrics(contractData, goPlusData, isToken).
CalculateRiskMetrics ==
    /\ pc = "call"
    /\ result' = calculateRiskMetrics(contractData, goPlusData, isToken)
    /\ calls' = Append(calls, "calculateRiskMetrics")
    /\ pc' = "done"
    /\ UNCHANGED <<caller, address, response, contractData, goPlusData, isToken, http,
                   promises, requests, request>>

\* return NextResponse.json(riskMetrics), or the catch of GET if the call raised.
Respond ==
    /\ caller = "route"
    /\ pc = "done"
    /\ IF result.status = "returned"
       THEN Return(result, 200)
       ELSE Return(AnalysisFailed, 500)
    /\ UNCHANGED <<caller, address, response, contractData, goPlusData, isToken, result,
                   calls, promises, requests, request>>

(***************************************************************************)
(* The multi-factor variant: Promise.all of the six collectors.            *)
(***************************************************************************)
\* What a collector's promise settles to: its data, or on a failure its default values
\* if its body catches, and a rejection if it does not (getContractData and
\* getSecurityData await their lookups outside any try).
Settled(c, failed) ==
    IF ~failed THEN "data" ELSE IF c \in Catching THEN "default" ELSE "rejected"

\* One axios.get of a collector and how it ended: "200", an HTTP error status, or
\* "network error" (no response, so error.response is undefined).
Get(url, outcome) == [op |-> "axios.get", url |-> url, outcome |-> outcome]

\* await new Promise(resolve => setTimeout(resolve, 60000))
Delay == [op |-> "setTimeout", url |-> Absent, outcome |-> "60000"]

\* The requests in the body of each collector, in the order of its awaits.
Urls ==
    [ source     |-> << "etherscan getsourcecode", "etherscan txlist", "etherscan getabi" >>,
      pool       |-> << "coingecko simple/token_price", "dexscreener latest/dex/tokens",
                        "coingecko market_chart" >>,
      security   |-> << "etherscan getsourcecode", "goplus token_security",
                        "4byte signatures" >>,
      market     |-> << "coingecko coins/ethereum/contract" >>,
      governance |-> << "snapshot graphql" >>,
      social     |-> << "etherscan getsourcecode" >> ]

\* The requests of collector c, the i-th ending as outcomes[i].
Gets(c, outcomes) == [i \in 1..Len(outcomes) |-> Get(Urls[c][i], outcomes[i])]

\* The requests a collector other than getMarketData has issued when it settles.  One
\* that runs to its return has issued each of its requests once; getPoolData catches
\* the failure of each request by itself and goes on, and reaches its outer catch by a
\* TypeError on the replies it has (after the second request or after the third); the
\* others stop at the first request that fails.
Issued(c, failed) ==
    IF c = "pool"
    THEN IF failed
         THEN { Gets(c, [i \in 1..k |-> "200"]) : k \in 2..3 }
         ELSE { Gets(c, o) : o \in [1..3 -> {"200", "network error"}] }
    ELSE IF failed
         THEN { Gets(c, [i \in 1..k |-> IF i < k THEN "200" ELSE "network error"]) :
                  k \in 1..Len(Urls[c]) }
         ELSE { Gets(c, [i \in 1..Len(Urls[c]) |-> "200"]) }

\* One collector other than getMarketData runs and settles; the others, and a handler
\* that has answered, do not wait.
Settle ==
    /\ caller = "multi"
    /\ \E c \in Collectors \ {"market"}, failed \in BOOLEAN :
         /\ promises[c] = "pending"
         /\ promises' = [promises EXCEPT ![c] = Settled(c, failed)]
         /\ \E issued \in Issued(c, failed) :
              requests' = [requests EXCEPT ![c] = issued]
    /\ UNCHANGED <<caller, address, response, contractData, goPlusData, isToken, result,
                   pc, calls, http, request>>

\* How the request of getMarketData can end.
MarketOutcomes == { "200", "429", "500", "network error" }

\* The retry on every failure, rate limit or not.
RetriesOnAnyFailure(outcome) == outcome # "200"

\* if (error.response?.status === 429)
RetriesOn(outcome) == outcome = "429"

\* getMarketData, the first request: the data of a reply, the wait before the retry on
\* a rate limit, and the default values on any other failure.
MarketRequest ==
    /\ caller = "multi"
    /\ promises["market"] = "pending"
    /\ requests["market"] = <<>>
    /\ \E outcome \in MarketOutcomes :
         /\ requests' = [requests EXCEPT !["market"] = <<Get(Urls["market"][1], outcome)>>]
         /\ promises' = [promises EXCEPT !["market"] =
                           IF outcome = "200" THEN "data"
                           ELSE IF RetriesOn(outcome) THEN "pending"
                           ELSE Settled("market", TRUE)]
    /\ UNCHANGED <<caller, address, response, contractData, goPlusData, isToken, result,
                   pc, calls, http, request>>

\* getMarketData, the 60 seconds between the rate-limited request and the retry.
MarketDelay ==
    /\ caller = "multi"
    /\ promises["market"] = "pending"
    /\ Len(requests["market"]) = 1
    /\ requests' = [requests EXCEPT !["market"] = Append(@, Delay)]
    /\ UNCHANGED <<caller, address, response, contractData, goPlusData, isToken, result,
                   pc, calls, http, promises, request>>

\* getMarketData, the retry: the data of a reply, or the default values (the catch of
\* the retry logs and falls through to the default return).
MarketRetry ==
    /\ caller = "multi"
    /\ promises["market"] = "pending"
    /\ Len(requests["market"]) = 2
    /\ \E outcome \in MarketOutcomes :
         /\ requests' = [requests EXCEPT !["market"] =
                           Append(@, Get(Urls["market"][1], outcome))]
         /\ promises' = [promises EXCEPT !["market"] =
                           Settled("market", outcome # "200")]
    /\ UNCHANGED <<caller, address, response, contractData, goPlusData, isToken, result,
                   pc, calls, http, request>>

\* Promise.all rejects with the first rejection: the catch of GET answers 500.
GatherRejects ==
    /\ caller = "multi"
    /\ pc = "gather"
    /\ \E c \in Collectors : promises[c] = "rejected"
    /\ Return(AnalysisFailed, 500)
    /\ UNCHANGED <<caller, address, response, contractData, goPlusData, isToken, result,
                   calls, promises, requests, request>>

\* The payload of the multi-factor calculateRiskMetrics on the six inputs.
MultiFactorMetrics(inputs) == [riskMetrics |-> inputs]

\* Promise.all fulfils when the six promises have: calculateRiskMetrics, the payload.
GatherFulfils ==
    /\ caller = "multi"
    /\ pc = "gather"
    /\ \A c \in Collectors : promises[c] \in {"data", "default"}
    /\ calls' = Append(calls, "calculateRiskMetrics")
    /\ Return(MultiFactorMetrics(promises), 200)
    /\ UNCHANGED <<caller, address, response, contractData, goPlusData, isToken, result,
                   promises, requests, request>>

Next ==
    \/ Middleware
    \/ CheckAddress
    \/ CheckIsEthereumContract
    \/ CheckIsContract
    \/ GetContractData
    \/ IsTokenContract
    \/ GetGoPlusSecurity
    \/ CalculateRiskMetrics
    \/ Respond
    \/ Settle
    \/ MarketRequest
    \/ MarketDelay
    \/ MarketRetry
    \/ GatherRejects
    \/ GatherFulfils

Spec == Init /\ [][Next]_vars

(***************************************************************************)
(* Properties of the calculator.                                           *)
(***************************************************************************)
Returned == pc = "done" /\ result.status = "returned"

Range(seq) == { seq[i] : i \in 1..Len(seq) }

\* C1: whenever calculateRiskMetrics returns, contractRisk, securityRisk and
\* overallRisk each lie in [0, 1].
C1_RisksWithinUnitInterval ==
    Returned =>
        /\ result.contractRisk \in 0..One
        /\ result.securityRisk \in 0..One
        /\ result.overallRisk \in 0..One

\* A token whose flag weights add up to more than 1.0, so that the cap binds.
C1_Witness ==
    /\ Returned
    /\ isToken
    /\ WeightedSum(securityRisks(contractData)) + WeightedSum(tokenRisks(goPlusData.obj)) > One
    /\ result.securityRisk = One

\* C2: the returned overallRisk is the arithmetic mean of the returned contractRisk
\* and securityRisk.
C2_OverallIsMean ==
    Returned => 2 * result.overallRisk = result.contractRisk + result.securityRisk

\* A verified, non-token record with no flag set and no vulnerability, and the two
\* subscores different.
C2_Witness ==
    /\ Returned
    /\ contractData.verified /\ ~isToken
    /\ contractData.criticalVulnerabilities = <<>>
    /\ contractData.majorRisks = <<>>
    /\ contractData.minorRisks = <<>>
    /\ result.contractRisk # result.securityRisk

\* The oracle record o with every absent field given the value "0" (flag not set, no tax).
AbsentAsUnset(o) == [f \in GoPlusFields |-> IF o[f] = Absent THEN "0" ELSE o[f]]

\* C3: calculateRiskMetrics never raises, whatever the oracle argument, an absent
\* (undefined) oracle record included, and returns what it returns for the record with
\* every absent field not set.
C3_NeverRaises ==
    pc = "done" =>
        /\ result.status = "returned"
        /\ result = calculateRiskMetrics(contractData, Defined(AbsentAsUnset(goPlusData.obj)),
                                         isToken)

\* The issue list of the record d with the analyzer flag f given the value b.
IssuesWithFlag(f, b) ==
    getSecurityIssues([contractData EXCEPT ![f] = b], goPlusData, isToken)

\* C4 as stated: each of the six risk conditions that holds (selfdestruct, delegatecall,
\* unchecked math, reentrancy risk, missing access control, not pausable) has a sentence
\* in the list, so the list differs from the list of the same record without that
\* condition; and every entry of the three vulnerability lists is in the list.
C4_SentenceForAllSixFlags ==
    Returned =>
        /\ \A f \in {"hasSelfDestruct", "hasDelegateCall", "hasUncheckedMath",
                      "hasReentrancyRisk"} :
              contractData[f] => result.details.securityIssues # IssuesWithFlag(f, FALSE)
        /\ \A f \in {"hasAccessControl", "hasPausable"} :
              ~contractData[f] => result.details.securityIssues # IssuesWithFlag(f, TRUE)
        /\ Range(contractData.criticalVulnerabilities) \cup Range(contractData.majorRisks)
              \cup Range(contractData.minorRisks) \subseteq Range(result.details.securityIssues)

\* C4 amended: the list holds the sentence of each of the four conditions selfdestruct,
\* delegatecall, reentrancy risk and missing access control that holds, and every entry
\* of the three vulnerability lists.
C4_SentenceForFourFlags ==
    Returned =>
        LET issues == Range(result.details.securityIssues) IN
        /\ contractData.hasSelfDestruct =>
              "Contract contains selfdestruct functionality" \in issues
        /\ contractData.hasDelegateCall => "Contract uses delegatecall" \in issues
        /\ contractData.hasReentrancyRisk => "Potential reentrancy vulnerability" \in issues
        /\ ~contractData.hasAccessControl => "No access control mechanisms found" \in issues
        /\ Range(contractData.criticalVulnerabilities) \cup Range(contractData.majorRisks)
              \cup Range(contractData.minorRisks) \subseteq issues

\* All four conditions hold and each list has an entry.
C4_Witness ==
    /\ Returned
    /\ contractData.hasSelfDestruct /\ contractData.hasDelegateCall
    /\ contractData.hasReentrancyRisk /\ ~contractData.hasAccessControl
    /\ contractData.criticalVulnerabilities # <<>>
    /\ contractData.majorRisks # <<>>
    /\ contractData.minorRisks # <<>>
    /\ Len(result.details.securityIssues) >= 7

\* The sentence expected for a tax string above 20, the percentage written out.
ExpectedTaxSentence(kind, tax) ==
    CASE tax = "20.5" -> "High " \o kind \o " tax: 20.5%"
      [] tax = "21"   -> "High " \o kind \o " tax: 21%"

ExpectedNotice ==
    If(~contractData.verified, "Contract not verified - source code unavailable for analysis")

ExpectedFlagSentences ==
    If(contractData.hasSelfDestruct, "Contract contains selfdestruct functionality")
      \o If(contractData.hasDelegateCall, "Contract uses delegatecall")
      \o If(contractData.hasReentrancyRisk, "Potential reentrancy vulnerability")
      \o If(~contractData.hasAccessControl, "No access control mechanisms found")

ExpectedTokenSentences ==
    IF ~isToken THEN <<>>
    ELSE LET o == goPlusData.obj IN
         If(o["is_honeypot"] = "1", "Token is a honeypot - cannot sell")
           \o If(o["is_blacklisted"] = "1", "Token is blacklisted")
           \o If(o["is_scam"] = "1", "Token is flagged as a scam")
           \o If(o["is_high_risk"] = "1", "Token is considered high risk")
           \o If(o["cannot_sell_all"] = "1", "Cannot sell all tokens at once")
           \o (IF o["buy_tax"] \in {"20.5", "21"}
               THEN <<ExpectedTaxSentence("buy", o["buy_tax"])>> ELSE <<>>)
           \o (IF o["sell_tax"] \in {"20.5", "21"}
               THEN <<ExpectedTaxSentence("sell", o["sell_tax"])>> ELSE <<>>)
           \o If(o["is_proxy"] = "1", "Contract is a proxy - can be upgraded")
           \o If(o["is_mintable"] = "1", "Token is mintable - supply can increase")

\* C5: the issue list is the unverified notice, the critical vulnerabilities, the major
\* risks, the sentences of the four traditional flags, the token sentences (tokens only)
\* and the minor risks, in this order, and its length is the sum of their lengths.
C5_IssuesInOrder ==
    Returned =>
        /\ result.details.securityIssues =
              ExpectedNotice \o contractData.criticalVulnerabilities
                \o contractData.majorRisks \o ExpectedFlagSentences
                \o ExpectedTokenSentences \o contractData.minorRisks
        /\ Len(result.details.securityIssues) =
              (IF contractData.verified THEN 0 ELSE 1)
                + Len(contractData.criticalVulnerabilities) + Len(contractData.majorRisks)
                + Cardinality({ f \in {"hasSelfDestruct", "hasDelegateCall",
                                       "hasReentrancyRisk"} : contractData[f] })
                + (IF contractData.hasAccessControl THEN 0 ELSE 1)
                + Len(ExpectedTokenSentences) + Len(contractData.minorRisks)

\* An unverified token with an entry in each list, a traditional flag, an oracle flag
\* and a high tax: all six parts of the list are non-empty.
C5_Witness ==
    /\ Returned
    /\ ~contractData.verified /\ isToken
    /\ contractData.criticalVulnerabilities # <<>>
    /\ contractData.majorRisks # <<>>
    /\ contractData.minorRisks # <<>>
    /\ contractData.hasReentrancyRisk
    /\ goPlusData.obj["is_honeypot"] = "1"
    /\ goPlusData.obj["buy_tax"] = "21"
    /\ Len(result.details.securityIssues) >= 8

\* An entry indicating limited API access or a failed analysis.
IndicatesAnalysisFailure(v) == IncludesApiAccessLimited(v) \/ IncludesAnalysisFailed(v)

\* The reference formula of contractRisk, the unverified branch decided by marked.
ContractRiskReference(marked) ==
    IF ~contractData.verified
    THEN IF marked THEN Min(2000 + 3000, 7000) ELSE Min(2000 + 4000, One)
    ELSE Min(Min(2000 * Len(contractData.criticalVulnerabilities), 4000)
               + Min(1250 * Len(contractData.majorRisks), 2500)
               + Min(250 * Len(contractData.minorRisks), 500),
             One)

\* C6 as stated: contractRisk is the reference formula, the unverified branch taking
\* the 0.3 penalty when any of the three vulnerability lists holds an entry indicating
\* limited API access or a failed analysis.
C6_ReferenceAnyList ==
    Returned =>
        result.contractRisk =
            ContractRiskReference(
                \E v \in Range(contractData.criticalVulnerabilities)
                           \cup Range(contractData.majorRisks)
                           \cup Range(contractData.minorRisks) : IndicatesAnalysisFailure(v))

\* C6 amended: contractRisk is the reference formula, the unverified branch taking the
\* 0.3 penalty when criticalVulnerabilities holds an entry indicating limited API access
\* or a failed analysis.
C6_ReferenceCriticalList ==
    Returned =>
        result.contractRisk =
            ContractRiskReference(
                \E v \in Range(contractData.criticalVulnerabilities) :
                    IndicatesAnalysisFailure(v))

\* A verified record whose three lists are each longer than their caps allow for.
C6_Witness ==
    /\ Returned
    /\ contractData.verified
    /\ Len(contractData.criticalVulnerabilities) >= 3
    /\ Len(contractData.majorRisks) >= 3
    /\ Len(contractData.minorRisks) >= 3
    /\ result.contractRisk = 7000

\* The weight w if b, and 0 otherwise.
Weight(b, w) == IF b THEN w ELSE 0

\* The tax strings that denote a number strictly above 20.
Above20 == { "20.5", "21" }

\* The sum S of C7 for the record and the oracle of the state.
ExpectedSecuritySum ==
    Weight(contractData.hasSelfDestruct, 1500) + Weight(contractData.hasDelegateCall, 1200)
      + Weight(contractData.hasUncheckedMath, 800) + Weight(contractData.hasReentrancyRisk, 2000)
      + Weight(~contractData.hasAccessControl, 1000) + Weight(~contractData.hasPausable, 500)
      + (IF isToken
         THEN Weight(goPlusData.obj["is_honeypot"] = "1", 3000)
                + Weight(goPlusData.obj["is_blacklisted"] = "1", 2500)
                + Weight(goPlusData.obj["is_scam"] = "1", 3000)
                + Weight(goPlusData.obj["is_high_risk"] = "1", 2000)
                + Weight(goPlusData.obj["cannot_sell_all"] = "1", 1500)
                + Weight(goPlusData.obj["buy_tax"] \in Above20, 1000)
                + Weight(goPlusData.obj["sell_tax"] \in Above20, 1000)
         ELSE 0)

\* The source text of the reply contains a selfdestruct( call.
SourceHasSelfDestructCall ==
    /\ caller = "route"
    /\ response.SourceCode.defined
    /\ "selfdestruct(payable(owner));" \in Range(response.SourceCode.text)

\* C7: securityRisk is min(1.0, S), S the sum of the weights of the six analyzer
\* conditions and, for a token only, of the seven oracle conditions (the taxes strictly
\* above 20); a source with a selfdestruct( call gets hasSelfDestruct and a securityRisk
\* of at least 0.15.
C7_SecurityRiskIsCappedSum ==
    /\ Returned => result.securityRisk = Min(One, ExpectedSecuritySum)
    /\ SourceHasSelfDestructCall => contractData.hasSelfDestruct
    /\ (SourceHasSelfDestructCall /\ Returned) => result.securityRisk >= 1500

\* A token with a buy tax of exactly 20, which does not count, and a sell tax above 20.
C7_Witness ==
    /\ Returned
    /\ isToken
    /\ goPlusData.obj["buy_tax"] = "20"
    /\ goPlusData.obj["sell_tax"] = "21"
    /\ goPlusData.obj["is_honeypot"] = "1"
    /\ result.securityRisk = 1000 + 500 + 3000 + 1000

\* The route has classified the source text of contractData.
Classified == caller = "route" /\ pc \in {"security", "call", "done"}

\* The lines of the text that are outside every closed block comment.
RECURSIVE OutsideBlockComments(_, _)
OutsideBlockComments(text, i) ==
    IF i > Len(text) THEN {}
    ELSE IF text[i] = "/*" /\ \E j \in (i + 1)..Len(text) : text[j] = "*/"
         THEN OutsideBlockComments(text,
                  1 + CHOOSE j \in (i + 1)..Len(text) :
                          text[j] = "*/" /\ \A k \in (i + 1)..(j - 1) : text[k] # "*/")
         ELSE {text[i]} \cup OutsideBlockComments(text, i + 1)

\* The lines of code that name the token interface: an interface declaration, or a
\* contract header with the name after "is" (anywhere on the rest of the line).
InterfaceNamingLines ==
    { "contract Token is ERC20 {", "interface IERC20 {",
      "contract Vault is Ownable { IERC20 public asset;" }

\* The number of the six functions with a line of the text that matches its pattern.
MatchingFunctions(lines) ==
    Cardinality({ k \in 1..6 :
        \/ FunctionDeclarations[k] \in lines
        \/ k \in {1, 2, 4} /\ FunctionImplementations[k] \in lines })

MatchingEvents(lines) == Cardinality({ k \in 1..2 : EventDeclarations[k] \in lines })

Analyzed == caller = "route" /\ "analyzeSolidityCode" \in Range(calls)

\* C9: for the empty source text analyzeSolidityCode returns the six flags false and
\* the three lists empty.
C9_EmptySourceNoFindings ==
    (Analyzed /\ contractData.sourceCode = <<>>) =>
        /\ \A f \in FlagNames : ~contractData[f]
        /\ contractData.criticalVulnerabilities = <<>>
        /\ contractData.majorRisks = <<>>
        /\ contractData.minorRisks = <<>>

\* The reply of an unverified contract, analyzed.
C9_Witness ==
    /\ caller = "route"
    /\ pc = "classify"
    /\ response.SourceCode = Text(<<>>)
    /\ contractData.sourceCode = <<>>

\* C10: an unverified, non-token contract with no vulnerability and every analyzer flag
\* false gets contractRisk 0.6, securityRisk 0.15, overallRisk 0.375 and exactly the two
\* issues "not verified" and "no access control".
C10_UnverifiedScenario ==
    ( /\ Returned
      /\ ~contractData.verified /\ ~isToken
      /\ contractData.criticalVulnerabilities = <<>>
      /\ contractData.majorRisks = <<>>
      /\ contractData.minorRisks = <<>>
      /\ \A f \in FlagNames : ~contractData[f] )
    => /\ result.contractRisk = 6000
       /\ result.securityRisk = 1500
       /\ result.overallRisk = 3750
       /\ result.details.securityIssues =
            << "Contract not verified - source code unavailable for analysis",
               "No access control mechanisms found" >>

C10_Witness ==
    /\ Returned
    /\ ~contractData.verified /\ ~isToken
    /\ contractData.criticalVulnerabilities = <<>>
    /\ contractData.majorRisks = <<>>
    /\ contractData.minorRisks = <<>>
    /\ \A f \in FlagNames : ~contractData[f]
    /\ Len(result.details.securityIssues) = 2

\* The record is verified and not a token, its lists are empty, it has no access control
\* and none of delegatecall, unchecked math and reentrancy risk.
SelfDestructScenario ==
    /\ Returned
    /\ contractData.verified /\ ~isToken
    /\ ~contractData.hasAccessControl
    /\ ~contractData.hasDelegateCall
    /\ ~contractData.hasUncheckedMath
    /\ ~contractData.hasReentrancyRisk
    /\ contractData.criticalVulnerabilities = <<>>
    /\ contractData.majorRisks = <<>>
    /\ contractData.minorRisks = <<>>

\* C11 as stated: a verified, non-token contract whose source has a selfdestruct( call
\* and no access control, and whose lists are empty, gets securityRisk 0.25,
\* contractRisk 0 and overallRisk 0.125.
C11_SelfDestructQuarter ==
    (SelfDestructScenario /\ contractData.hasSelfDestruct) =>
        /\ result.securityRisk = 2500
        /\ result.contractRisk = 0
        /\ result.overallRisk = 1250

\* C11 amended: in that scenario contractRisk is 0, and securityRisk is 0.25 with
\* overallRisk 0.125 only for a pausable contract; without a pause mechanism the 0.05
\* of "not pausable" is added: securityRisk 0.30 and overallRisk 0.15.  Through the
\* route the selfdestruct( call of the source text is what sets the flag.
C11_SelfDestructWithPausable ==
    /\ (SelfDestructScenario /\ contractData.hasSelfDestruct) =>
          /\ result.contractRisk = 0
          /\ contractData.hasPausable =>
                result.securityRisk = 2500 /\ result.overallRisk = 1250
          /\ ~contractData.hasPausable =>
                result.securityRisk = 3000 /\ result.overallRisk = 1500
    /\ (SelfDestructScenario /\ SourceHasSelfDestructCall) =>
          result.securityRisk = IF contractData.hasPausable THEN 2500 ELSE 3000

\* The route has analyzed a verified source with a selfdestruct( call and neither
\* access control nor a pause mechanism.
C11_Witness ==
    /\ SelfDestructScenario
    /\ SourceHasSelfDestructCall
    /\ ~contractData.hasPausable
    /\ result.securityRisk = 3000
    /\ result.overallRisk = 1500

\* The versions drawn that are 0.8 or later.
AtLeast08 == { "v0.8.19+commit.7dd6d404", "0.8.19" }

\* The number k of C12, in sixths: the conditions that hold among optimization enabled,
\* compiler 0.8 or later, access control, pausable, no selfdestruct, no delegatecall.
QualityConditions ==
    Cardinality({ i \in 1..6 :
        << contractData.optimizationEnabled,
           contractData.compilerVersion \in AtLeast08,
           contractData.hasAccessControl,
           contractData.hasPausable,
           ~contractData.hasSelfDestruct,
           ~contractData.hasDelegateCall >>[i] })

\* C12: codeQuality (in units of 1/60) is 0.1 for an unverified record and max(0.4, k/6)
\* for a verified one, k counting the six conditions, the compiler one being "0.8 or
\* later"; so it is 0.1 or within [0.4, 1].
C12_CodeQualityFormula ==
    Returned =>
        /\ result.details.codeQuality =
              IF ~contractData.verified THEN 6 ELSE Max(24, 10 * QualityConditions)
        /\ result.details.codeQuality = 6 \/ result.details.codeQuality \in 24..60

(***************************************************************************)
(* The route.                                                              *)
(***************************************************************************)
Called(name) == name \in Range(calls)

\* The addresses drawn that are no Ethereum address: null, empty, not 0x + 40 hex digits.
AbsentOrMalformed == { Absent, "", "not-an-address" }

\* C13: a request whose address is absent or malformed is answered with status 400 and
\* { error: "Address parameter is required" }, and no collector is called for it.
C13_AbsentOrMalformedRejected ==
    (caller = "route" /\ address \in AbsentOrMalformed) =>
        /\ calls = <<>>
        /\ pc # "request" =>
              http = << [status |-> 400, body |-> [error |-> "Address parameter is required"]] >>

\* One of the two contract checks of the request returned false.
DetectionFailed ==
    /\ caller = "route"
    /\ Called("checkIsEthereumContract -> false") \/ Called("checkIsContract -> false")

\* The score fields of RiskMetrics.  Its fourth field, details, is an object there; the
\* error payloads have a string of that name.
MetricsFields == { "contractRisk", "securityRisk", "overallRisk" }

Raised ==
    \/ Called("getsourcecode -> throws")
    \/ Called("txlist -> throws")
    \/ Called("TypeError")
    \/ pc = "responded" /\ result.status = "TypeError"

\* C15: a request whose address is invalid, or not a contract address, is answered with
\* status 400, and an internal failure with status 500.
C15_Status400Or500 ==
    (caller = "route" /\ pc = "responded") =>
        /\ (address \in AbsentOrMalformed \/ DetectionFailed) => http[1].status = 400
        /\ Raised => http[1].status = 500

\* The request passed the address check and both contract checks.
DetectionPassed == caller = "route" /\ Called("checkIsContract -> true")

\* The answer is a RiskMetrics payload.
MetricsAnswered ==
    /\ Len(http) = 1
    /\ http[1].status = 200
    /\ MetricsFields \subseteq DOMAIN http[1].body

\* C16: the failure of a collector call (bytecode, source, transaction list, token
\* security) is replaced by a default and never fails the request: a request that passed
\* the address check and the contract detection is answered with a RiskMetrics payload,
\* never with a 500.
C16_CollectorFailuresRecovered ==
    (DetectionPassed /\ pc = "responded") => MetricsAnswered

Positions(name) == { i \in 1..Len(calls) : calls[i] = name }

\* The handler is past the choice of goPlusData.
PastSecurity == caller = "route" /\ (pc \in {"call", "done"} \/ Called("calculateRiskMetrics"))

\* C18: the token-security collector is called at most once, only after the source
\* lookup and the classification, and if and only if isTokenContract returned true for
\* the fetched source; when it is not called the aggregator gets the empty record.
C18_OracleIffToken ==
    caller = "route" =>
        /\ Cardinality(Positions("getGoPlusSecurity")) <= 1
        /\ \A j \in Positions("getGoPlusSecurity") :
              /\ \E i \in Positions("getsourcecode") : i < j
              /\ \E i \in Positions("isTokenContract") : i < j
        /\ Called("getGoPlusSecurity") => isToken
        /\ Called("isTokenContract") => isToken = isTokenContract(contractData.sourceCode)
        /\ PastSecurity => (Called("getGoPlusSecurity") <=> isToken)
        /\ (PastSecurity /\ ~Called("getGoPlusSecurity")) => goPlusData = Defined(EmptyObject)
        /\ (Called("calculateRiskMetrics") /\ ~Called("getGoPlusSecurity")) =>
              result = calculateRiskMetrics(contractData, Defined(EmptyObject), FALSE)

\* A token: the oracle was asked once, its record went into the result; and the result
\* differs from that of the empty record.
C18_Witness ==
    /\ caller = "route"
    /\ pc = "done"
    /\ isToken
    /\ Cardinality(Positions("getGoPlusSecurity")) = 1
    /\ goPlusData = Defined(SampleReply)
    /\ result # calculateRiskMetrics(contractData, Defined(EmptyObject), TRUE)

StageNames ==
    { "getsourcecode", "analyzeSolidityCode", "isTokenContract", "getGoPlusSecurity",
      "calculateRiskMetrics" }

\* The stages of the request in the order they ran.
Stages == SelectSeq(calls, LAMBDA c : c \in StageNames)

OracleStage == IF isToken THEN <<"getGoPlusSecurity">> ELSE <<>>

\* C19 as stated: in a successful request the source is fetched, then classified, then
\* (for a token) the oracle is asked, then the Pattern Analyzer runs, then the aggregator.
C19_AnalyzerAfterClassifier ==
    (caller = "route" /\ MetricsAnswered) =>
        Stages = <<"getsourcecode", "isTokenContract">> \o OracleStage
                   \o <<"analyzeSolidityCode", "calculateRiskMetrics">>

\* C19 amended: the Pattern Analyzer runs inside the source lookup, before the
\* classifier: fetch, analyze, classify, (oracle), aggregate, respond; the analyzer and
\* the classifier read the same source text, and the response is the aggregator's result.
C19_AnalyzerInsideFetch ==
    (caller = "route" /\ MetricsAnswered) =>
        /\ Stages = <<"getsourcecode", "analyzeSolidityCode", "isTokenContract">>
                      \o OracleStage \o <<"calculateRiskMetrics">>
        /\ contractData.sourceCode =
              (IF response.SourceCode.defined THEN response.SourceCode.text ELSE <<>>)
        /\ isToken = isTokenContract(contractData.sourceCode)
        /\ contractData.majorRisks = analyzeSolidityCode(contractData.sourceCode).majorRisks
        /\ http[1].body = result

\* A successful request for a token: five stages, the analyzer second.
C19_Witness ==
    /\ caller = "route"
    /\ MetricsAnswered
    /\ isToken
    /\ Len(Stages) = 5
    /\ Stages[2] = "analyzeSolidityCode"
    /\ Stages[4] = "getGoPlusSecurity"

(***************************************************************************)
(* The multi-factor variant.                                               *)
(***************************************************************************)
\* C20: whatever collectors fail and in whatever order the six settle, each failing
\* collector yields its default, the aggregator is called with six complete inputs and
\* the request is answered with a metrics payload.
C20_EveryCollectorHasDefault ==
    caller = "multi" =>
        /\ \A c \in Collectors : promises[c] # "rejected"
        /\ pc = "responded" =>
              /\ Called("calculateRiskMetrics")
              /\ http[1].status = 200
              /\ \A c \in Collectors : http[1].body.riskMetrics[c] \in {"data", "default"}

(***************************************************************************)
(* Properties of the collectors' requests.                                 *)
(***************************************************************************)
\* The axios.get entries among the requests of collector c.
GetsOf(c) == SelectSeq(requests[c], LAMBDA r : r.op = "axios.get")

\* Collector c has issued the same request twice.
Repeats(c) ==
    \E i, j \in 1..Len(GetsOf(c)) : i < j /\ GetsOf(c)[i].url = GetsOf(c)[j].url

\* C21: getMarketData issues at most two requests; the second is issued only when the
\* first failed with status 429 and only after the delay; when the first failure is of
\* another kind, or the retry fails too, it returns the default record; no other
\* collector repeats a request.
C21_MarketRetriesOnceOn429 ==
    caller = "multi" =>
      LET log == requests["market"] IN
      /\ Len(GetsOf("market")) <= 2
      /\ Len(GetsOf("market")) = 2 =>
           /\ Len(log) = 3
           /\ log[1].op = "axios.get" /\ log[1].outcome = "429"
           /\ log[2] = Delay
           /\ log[3].op = "axios.get"
      /\ (Len(log) >= 1 /\ log[1].outcome \notin {"200", "429"}) =>
           Len(log) = 1 /\ promises["market"] = "default"
      /\ (Len(log) = 3 /\ log[3].outcome # "200") => promises["market"] = "default"
      /\ (Len(log) = 3 /\ log[3].outcome = "200") => promises["market"] = "data"
      /\ \A c \in Collectors \ {"market"} : ~Repeats(c)

\* The retry was rate limited as well and the default record is returned, next to a
\* collector that has issued its three requests.
C21_Witness ==
    /\ caller = "multi"
    /\ Len(requests["market"]) = 3
    /\ requests["market"][3].outcome = "429"
    /\ promises["market"] = "default"
    /\ Len(requests["pool"]) = 3

(***************************************************************************)
(* Properties of the middleware.                                           *)
(***************************************************************************)
\* The endpoints of the application: the configured tools and the risk analyzer that
\* the README documents (GET /api/tools/risk-analyzer?address=...).
ApplicationEndpoints ==
    { toolConfigs[t].endpoint : t \in DOMAIN toolConfigs } \cup { RiskAnalyzerPath }

\* The middleware has run on the request.
PastMiddleware == request # NoRequest /\ pc # "middleware"

\* C22: a GET of /api/tools/risk-analyzer with an address parameter passes the
\* middleware and reaches the handler of the risk analyzer; the middleware answers 404
\* 'Tool not found' only for paths under /api/tools/ that are no endpoint of the
\* application.
C22_RiskAnalyzerPassesMiddleware ==
    PastMiddleware =>
      /\ ( /\ request.pathname = RiskAnalyzerPath
           /\ request.method = "GET"
           /\ "address" \in request.searchParams )
           => caller = "route"
      /\ (http # <<>> /\ http[1] = Json(ToolNotFound, 404))
           => /\ StartsWithApiTools(request.pathname)
              /\ request.pathname \notin ApplicationEndpoints

(***************************************************************************)
(* Properties of the calculator on the records of the test script.         *)
(***************************************************************************)
\* C23: for the contract data of the 'hacked' profile, calculateRiskMetrics returns an
\* overallRisk within [0.7, 1.0] and a securityIssues list that is not empty.
C23_HackedProfileIsHighRisk ==
    (caller = "test" /\ Returned /\ contractData = createMockContractData("hacked", TRUE)
       /\ goPlusData = Defined(EmptyObject) /\ ~isToken)
      => /\ result.overallRisk \in 7000..One
         /\ Len(result.details.securityIssues) > 0

\* Oracle records to compare a result with: undefined, {}, one with a few fields set
\* and one with every flag set and both taxes high.
OracleRecords ==
    { Undefined, Defined(EmptyObject), Defined(SampleReply),
      Defined([f \in GoPlusFields |-> IF f \in {"buy_tax", "sell_tax"} THEN "21" ELSE "1"]) }

\* C24: when isToken is false the result does not depend on the oracle record: with any
\* other oracle record and the same ContractData, securityRisk, overallRisk and
\* securityIssues are the same, and details.tokenSecurity is undefined;
\* details.tokenSecurity is defined exactly when isToken is true.
C24_NonTokenIgnoresOracle ==
    Returned =>
      /\ ~isToken =>
           /\ \A gp \in OracleRecords :
                LET other == calculateRiskMetrics(contractData, gp, isToken)
                IN  /\ other.status = "returned"
                    /\ other.securityRisk = result.securityRisk
                    /\ other.overallRisk = result.overallRisk
                    /\ other.details.securityIssues = result.details.securityIssues
           /\ result.details.tokenSecurity = <<>>
      /\ result.details.tokenSecurity # <<>> <=> isToken

\* A result for a non-token computed with an oracle record that flags a honeypot and
\* a high tax.
C24_Witness ==
    /\ Returned
    /\ ~isToken
    /\ goPlusData.defined
    /\ goPlusData.obj["is_honeypot"] = "1"
    /\ TaxAbove20(goPlusData.obj["buy_tax"])

Built == caller = "route" /\ Called("analyzeSolidityCode")

\* C26: in the pipeline of the GET, every contract reported as unverified gets the same
\* result whatever the address: contractRisk 0.6, securityRisk 0.15, overallRisk 0.375,
\* isToken false and the same two securityIssues; the branch of calculateContractRisk
\* for limited API access is not reachable from the pipeline.
C26_UnverifiedResultIsConstant ==
    /\ (Built /\ ~contractData.verified) =>
         /\ ~HasFailureMarker(contractData.criticalVulnerabilities)
         /\ Called("isTokenContract") => ~isToken
         /\ result.status = "returned" =>
              /\ result.contractRisk = 6000
              /\ result.securityRisk = 1500
              /\ result.overallRisk = 3750
              /\ ~result.details.isToken
              /\ result.details.securityIssues =
                   << "Contract not verified - source code unavailable for analysis",
                      "No access control mechanisms found" >>
    /\ Built => ~HasFailureMarker(contractData.criticalVulnerabilities)

\* An unverified contract answered with its metrics, for an address that is no
\* well-formed Ethereum address but passed the two bytecode checks.
C26_Witness ==
    /\ Built
    /\ ~contractData.verified
    /\ address = "not-an-address"
    /\ pc = "responded"
    /\ http[1].status = 200
    /\ http[1].body = result

\* C27: every ContractData record built by getContractData has verified = true if and
\* only if its sourceCode is not empty, for every shape of the block-explorer reply, a
\* reply whose SourceCode field is absent or null included.
C27_VerifiedIffSourceNonEmpty ==
    Built => (contractData.verified <=> contractData.sourceCode # <<>>)

(***************************************************************************)
(* Properties of the pattern analyzer.                                     *)
(***************************************************************************)
\* The entries of the three lists in the order of their detection.
CriticalOrder ==
    << "Unchecked low-level call - return value not verified",
       "Using tx.origin for authorization (phishing vulnerability)",
       "Potential reentrancy vulnerability in external calls" >>

MajorOrder ==
    << "Hidden mint function detected",
       "Admin can mint tokens or transfer user funds",
       "Upgradeable contract - admin can change logic",
       "Contract can blacklist addresses" >>

MinorOrder ==
    << "Using outdated Solidity version", "Uses inline assembly - increased complexity" >>

\* list holds entries of order only, each at most once, in the order of order.
InOrderOf(list, order) ==
    /\ Len(list) <= Len(order)
    /\ \A i \in 1..Len(list) : \E k \in 1..Len(order) : list[i] = order[k]
    /\ \A i, j \in 1..Len(list) :
         i < j => \E k, l \in 1..Len(order) : k < l /\ list[i] = order[k] /\ list[j] = order[l]

\* C28: for every source text the findings of analyzeSolidityCode have hasReentrancyRisk
\* true iff criticalVulnerabilities contains 'Potential reentrancy vulnerability in
\* external calls'; the three lists have no duplicates, hold at most 3, 4 and 2 entries
\* and list their entries in the fixed order of detection.
C28_FindingsWellFormed ==
    Built =>
      LET findings == analyzeSolidityCode(contractData.sourceCode) IN
      /\ findings.hasReentrancyRisk <=>
           "Potential reentrancy vulnerability in external calls"
             \in Range(findings.criticalVulnerabilities)
      /\ contractData.hasReentrancyRisk = findings.hasReentrancyRisk
      /\ contractData.criticalVulnerabilities = findings.criticalVulnerabilities
      /\ InOrderOf(findings.criticalVulnerabilities, CriticalOrder)
      /\ InOrderOf(findings.majorRisks, MajorOrder)
      /\ InOrderOf(findings.minorRisks, MinorOrder)
      /\ Len(findings.criticalVulnerabilities) <= 3
      /\ Len(findings.majorRisks) <= 4
      /\ Len(findings.minorRisks) <= 2

\* A source with every finding: the lists are full, and the tx.origin line comes first
\* in the text while its entry is second in the list.
C28_Witness ==
    /\ Built
    /\ contractData.sourceCode # <<>>
    /\ contractData.sourceCode[1] = "require(tx.origin == owner);"
    /\ contractData.hasReentrancyRisk
    /\ contractData.criticalVulnerabilities = CriticalOrder
    /\ contractData.majorRisks = MajorOrder
    /\ contractData.minorRisks = MinorOrder

Appended(data, field, entry) == [data EXCEPT ![field] = Append(@, entry)]

\* Appending entry to the list field of contractData does not decrease contractRisk.
NoDecrease(field, entry) ==
    calculateContractRisk(Appended(contractData, field, entry))
      >= calculateContractRisk(contractData)

\* entry carries 'API access limited' or 'analysis failed'.
IsFailureMarker(entry) == IncludesApiAccessLimited(entry) \/ IncludesAnalysisFailed(entry)

\* The first failure marker of an unverified record: the one appending that moves a
\* record from the unverified branch to the branch for limited API access.
FirstMarker(entry) ==
    /\ ~contractData.verified
    /\ IsFailureMarker(entry)
    /\ ~HasFailureMarker(contractData.criticalVulnerabilities)

\* C30: calculateContractRisk is monotone in its lists: appending an entry to
\* criticalVulnerabilities, majorRisks or minorRisks never decreases the contractRisk.
C30_MonotoneInLists ==
    Returned =>
      /\ result.contractRisk = calculateContractRisk(contractData)
      /\ \A e \in CriticalEntries : NoDecrease("criticalVulnerabilities", e)
      /\ \A e \in MajorEntries : NoDecrease("majorRisks", e)
      /\ \A e \in MinorEntries : NoDecrease("minorRisks", e)

\* C30 as amended: appending never decreases the contractRisk, except that the first
\* failure marker appended to the critical list of an unverified record lowers it from
\* 0.6 to 0.5.
C30_MonotoneExceptFirstMarker ==
    Returned =>
      /\ result.contractRisk = calculateContractRisk(contractData)
      /\ \A e \in CriticalEntries :
           IF FirstMarker(e)
           THEN /\ result.contractRisk = 6000
                /\ calculateContractRisk(Appended(contractData, "criticalVulnerabilities", e))
                     = 5000
           ELSE NoDecrease("criticalVulnerabilities", e)
      /\ \A e \in MajorEntries : NoDecrease("majorRisks", e)
      /\ \A e \in MinorEntries : NoDecrease("minorRisks", e)

\* An unverified record with one critical entry that is no failure marker: appending
\* a marker to it is the exception, appending anything else is not.
C30_Witness ==
    /\ Returned
    /\ ~contractData.verified
    /\ Len(contractData.criticalVulnerabilities) = 1
    /\ ~HasFailureMarker(contractData.criticalVulnerabilities)
    /\ result.contractRisk = 6000
====
